---- MODULE Spec2Model ----
(***************************************************************************)
(* Gateway lifecycle of moltworker.                                        *)
(*                                                                         *)
(*   Spec        one invocation of ensureMoltbotGateway against a sandbox  *)
(*               (src/src/gateway/process.ts)                              *)
(*   SpecSynth   the node config block of start-moltbot.sh, applied to a   *)
(*               prior config and an environment (src/unnamed/part_000)    *)
(*   SpecScript  runs of start-moltbot.sh: restore from the backup, config *)
(*               update, gateway start and crash fallback                  *)
(*               (src/unnamed/part_000)                                    *)
(*                                                                         *)
(* Strings the code searches are sequences of tokens, so that includes,    *)
(* startsWith, endsWith and the trailing-slash strip are computed.         *)
(***************************************************************************)
EXTENDS Integers, Sequences, FiniteSets, TLC

VARIABLES
    \* ---- sandbox and ensureMoltbotGateway (process.ts)
    procs,        \* the sandbox's process records, id = index
    pc,           \* position of the ensureMoltbotGateway invocation
    listOk,       \* whether sandbox.listProcesses() resolved in this run
    found,        \* existingProcesses: ids returned by discovery
    ki,           \* index of the next element of existingProcesses to kill
    killLog,      \* kill() calls made so far: <<[id, status, ok]>>
    graceDone,    \* the 2000 ms wait of line 76 has completed
    startCalls,   \* number of sandbox.startProcess calls
    preStart,     \* snapshot taken when startProcess is called
    process,      \* id of the started process, 0 before
    waitOutcome,  \* "none" | "ok" | "failed"   (process.waitForPort)
    logsReady,    \* "none" | "ok" | "failed"   (getLogs of line 104)
    logsCatch,    \* "none" | "ok" | "failed"   (getLogs of line 110)
    capturedLogs, \* logs returned by the getLogs of line 110
    e,            \* the error bound by catch (e) at line 107
    result,       \* outcome of the invocation
    workerEnv,    \* the env bindings ensureMoltbotGateway was called with
    envVars,      \* what buildEnvVars returned, passed to startProcess
    peer,         \* a second ensureMoltbotGateway invocation on the same sandbox
    mw,           \* one request in the access middleware: bindings, options, request, outcome
    \* ---- start-moltbot.sh (unnamed/part_000)
    spc,          \* position of the launch script
    configFile,   \* parsed content of /root/.clawdbot/clawdbot.json, None when absent
    env,          \* process.env of the launch script
    readConfig,   \* what the node block read at line 170 in this run
    backup,       \* the R2 mount /data/moltbot: layout, .last-sync, config, skills
    localSync,    \* /root/.clawdbot/.last-sync
    template,     \* whether the template file exists
    skillsDir,    \* /root/clawd/skills: "empty" | "restored"
    runs,         \* number of runs of the script started so far
    restored,     \* what this run copied from the backup: [config, skills]
    runLog,       \* per run, what the restore block printed to the log
    earlier,      \* the degraded script of an earlier run and its nc listener
    service,      \* the clawdbot gateway child: [state, code]
    response,     \* /tmp/response.txt as written by keep_alive_on_crash
    answers,      \* responses the fallback listener gave, in order
    ncFailed,     \* the nc of line 429 ended with a non-zero status
    logLen        \* number of lines in /tmp/moltbot.log

orchVars == <<procs, pc, listOk, found, ki, killLog, graceDone, startCalls,
              preStart, process, waitOutcome, logsReady, logsCatch,
              capturedLogs, e, result, workerEnv, envVars>>

synthVars == <<configFile, env, readConfig>>

restoreVars == <<backup, localSync, template, skillsDir, restored, runLog>>

superVars == <<service, response, answers, ncFailed>>

scriptVars == <<spc, synthVars, restoreVars, superVars, runs, logLen, earlier>>

vars == <<orchVars, scriptVars, peer, mw>>

\* ------------------------------------------------------------------ bounds
MaxPrior == 2

\* runs of the launch script in one behaviour
MaxRuns == 2

\* connections the fallback listener answers in one run
MaxConnections == 2

\* ------------------------------------------------------------ conventions
None == [kind |-> "none"]

\* a value that is undefined or null in the source
Undefined == "<undefined>"

\* no request is in the access middleware
NoRequest ==
    [pc |-> "idle",
     env |-> [DEV_MODE |-> "", E2E_TEST_MODE |-> "", MOLTBOT_GATEWAY_TOKEN |-> "",
              CF_ACCESS_TEAM_DOMAIN |-> "", CF_ACCESS_AUD |-> ""],
     options |-> [type |-> "json", redirectOnMissing |-> FALSE],
     req |-> [queryToken |-> Undefined, cookies |-> <<>>, jwtHeader |-> Undefined],
     accessUser |-> Undefined, nextCalls |-> 0, verify |-> "none", response |-> None]

\* the second invocation before it is called: its position, existingProcesses,
\* loop index, started process and outcome
NoPeer == [pc |-> "idle", found |-> <<>>, ki |-> 1, process |-> 0, result |-> None]

\* s.includes(t) for token sequences: t occurs contiguously in s
Includes(s, t) ==
    \E i \in 0..(Len(s) - Len(t)) :
        \A j \in 1..Len(t) : s[i + j] = t[j]

StartsWith(s, t) ==
    /\ Len(t) <= Len(s)
    /\ \A j \in 1..Len(t) : s[j] = t[j]

EndsWith(s, t) ==
    /\ Len(t) <= Len(s)
    /\ \A j \in 1..Len(t) : s[Len(s) - Len(t) + j] = t[j]

\* ------------------------------------------------- sandbox process records
Statuses == {"starting", "running", "exited", "killed"}

\* command lines, tokenised at spaces; the launch script is one token
LaunchCommand == <<"/usr/local/bin/start-moltbot.sh">>

Commands ==
    { LaunchCommand,
      <<"clawdbot", "gateway", "--port", "18789">>,
      <<"clawdbot", "devices", "list">>,
      <<"clawdbot", "--version">>,
      <<"clawdbot", "--help">>,
      <<"clawdbot", "gateway", "--help">>,
      <<"sleep", "60">> }

ProcRecord(id, command, status) ==
    [id |-> id, command |-> command, status |-> status]

\* proc.command.includes('start-moltbot.sh'): a token holding the script name
HasLaunchScript(command) ==
    \E i \in 1..Len(command) : command[i] \in {"/usr/local/bin/start-moltbot.sh", "start-moltbot.sh"}

isGatewayProcess(command) ==
    \/ HasLaunchScript(command)
    \/ Includes(command, <<"clawdbot", "gateway">>)

isCliCommand(command) ==
    \/ Includes(command, <<"clawdbot", "devices">>)
    \/ Includes(command, <<"clawdbot", "--version">>)

Matches(p) == isGatewayProcess(p.command) /\ ~isCliCommand(p.command)

\* findExistingMoltbotProcesses on a resolved listing: ids in listing order
RECURSIVE FilterIds(_, _)
FilterIds(ps, i) ==
    IF i > Len(ps) THEN <<>>
    ELSE (IF Matches(ps[i]) THEN <<i>> ELSE <<>>) \o FilterIds(ps, i + 1)

findExistingMoltbotProcesses(ps, resolved) ==
    IF resolved THEN FilterIds(ps, 1) ELSE <<>>

\* the records the for-loop of line 67 calls kill() on
KillTargetsSkipStarting(existing, ps) ==
    SelectSeq(existing, LAMBDA id : ps[id].status # "starting")

KillTargets(existing, ps) == existing

\* line 65: the clean-up block, grace wait included, runs when something was found
NeedsCleanupNever(existing) == FALSE

NeedsCleanupMoreThanOne(existing) == Len(existing) > 1

NeedsCleanup(existing) == Len(existing) > 0

Alive(p) == p.status \in {"starting", "running"}

\* ------------------------------------------------------------------ errors
Err(kind) == [kind |-> kind, text |-> ""]

WaitErrors == {Err("timeout"), Err("waitForPort")}

StderrTexts == {"", "EADDRINUSE"}

\* line 113: new Error(`Moltbot gateway failed to start. Stderr: ${logs.stderr || '(empty)'}`)
DescriptiveError(logs) ==
    [kind |-> "failedToStart",
     text |-> IF logs.stderr = "" THEN "(empty)" ELSE logs.stderr]

\* lines 114-117: whatever the inner try threw is caught as logErr, and e is thrown
InnerCatchRethrowsLogErr(thrown, outer) == thrown

InnerCatch(thrown, outer) == outer

\* ------------------------------------------------------------- JS objects
\* An object is the sequence of its <<key, value>> pairs in insertion order,
\* which is the order JSON.stringify writes them in.
ObjHas(o, k) == \E i \in 1..Len(o) : o[i][1] = k

ObjIdx(o, k) == CHOOSE i \in 1..Len(o) : o[i][1] = k

ObjGet(o, k) == o[ObjIdx(o, k)][2]

ObjSet(o, k, v) ==
    IF ObjHas(o, k) THEN [o EXCEPT ![ObjIdx(o, k)] = <<k, v>>]
    ELSE Append(o, <<k, v>>)

ObjDel(o, k) == SelectSeq(o, LAMBDA kv : kv[1] # k)

\* o[k] || {}
ObjOr(o, k) == IF ObjHas(o, k) THEN ObjGet(o, k) ELSE <<>>

RECURSIVE HasPath(_, _)
HasPath(o, path) ==
    \/ path = <<>>
    \/ /\ ObjHas(o, Head(path))
       /\ HasPath(ObjGet(o, Head(path)), Tail(path))

RECURSIVE GetPath(_, _)
GetPath(o, path) ==
    IF path = <<>> THEN o ELSE GetPath(ObjGet(o, Head(path)), Tail(path))

RECURSIVE SetPath(_, _, _)
SetPath(o, path, v) ==
    IF Len(path) = 1 THEN ObjSet(o, path[1], v)
    ELSE ObjSet(o, path[1], SetPath(ObjOr(o, path[1]), Tail(path), v))

RECURSIVE DelPath(_, _)
DelPath(o, path) ==
    IF Len(path) = 1 THEN ObjDel(o, path[1])
    ELSE ObjSet(o, path[1], DelPath(ObjGet(o, path[1]), Tail(path)))

\* x.y = x.y || {}
Ensure(o, path) == SetPath(o, path, IF HasPath(o, path) THEN GetPath(o, path) ELSE <<>>)

\* ------------------------------------------------- config update: constants
GatewayPort == 18789

ModelEntry(id, name, contextWindow) ==
    << <<"id", id>>, <<"name", name>>, <<"contextWindow", contextWindow>> >>

anthropicModels ==
    << ModelEntry("claude-sonnet-4-5-20250929", "Claude Sonnet 4.5", 200000),
       ModelEntry("claude-haiku-4-5-20251001", "Claude Haiku 4.5", 200000),
       ModelEntry("claude-3-5-sonnet-latest", "Claude 3.5 Sonnet", 200000),
       ModelEntry("claude-3-opus-latest", "Claude 3 Opus", 200000) >>

openaiModels ==
    << ModelEntry("gpt-5.2", "GPT-5.2", 200000),
       ModelEntry("gpt-5", "GPT-5", 200000),
       ModelEntry("gpt-4.5-preview", "GPT-4.5 Preview", 128000) >>

googleModels ==
    << ModelEntry("gemini-3-flash", "Gemini 3 Flash", 1000000),
       ModelEntry("gemini-3-pro-preview", "Gemini 3 Pro", 2000000),
       ModelEntry("gemini-2.0-flash", "Gemini 2.0 Flash", 1000000) >>

ProviderNames == {"anthropic", "openai", "google"}

\* ------------------------------------------- config update: classification
\* tokens of the modelled URLs and model names that contain "gemini"
GeminiTokens == {"https://gemini.example.com", "gemini-3-flash", "gemini-pro"}

IncludesGemini(s) == \E i \in 1..Len(s) : s[i] \in GeminiTokens

\* .replace(/\/+$/, '')
RECURSIVE StripTrailingSlashes(_)
StripTrailingSlashes(s) ==
    IF s # <<>> /\ s[Len(s)] = "/"
    THEN StripTrailingSlashes(SubSeq(s, 1, Len(s) - 1))
    ELSE s

\* line 256
ScriptBaseUrl(en) ==
    StripTrailingSlashes(
        IF en.AI_GATEWAY_BASE_URL # <<>> THEN en.AI_GATEWAY_BASE_URL
        ELSE en.ANTHROPIC_BASE_URL)

\* line 257
isGoogleByUrlOnly(baseUrl, en) ==
    \/ EndsWith(baseUrl, <<"/", "google">>)
    \/ IncludesGemini(baseUrl)

isGoogle(baseUrl, en) ==
    \/ EndsWith(baseUrl, <<"/", "google">>)
    \/ IncludesGemini(baseUrl)
    \/ (en.CF_AI_GATEWAY_MODEL # <<>> /\ StartsWith(en.CF_AI_GATEWAY_MODEL, <<"google", "/">>))

\* line 258
isOpenAI(baseUrl, en) ==
    \/ EndsWith(baseUrl, <<"/", "openai">>)
    \/ (en.CF_AI_GATEWAY_MODEL # <<>> /\ StartsWith(en.CF_AI_GATEWAY_MODEL, <<"openai", "/">>))

\* the provider key the if / else-if / else of lines 282-393 assigns
WrittenProvider(baseUrl, en) ==
    IF isGoogle(baseUrl, en)
    THEN (IF EndsWith(baseUrl, <<"/", "openai">>) THEN "openai" ELSE "google")
    ELSE IF isOpenAI(baseUrl, en) THEN "openai"
    ELSE "anthropic"

\* ------------------------------------------------ config update: the blocks
\* !m.name
LacksName(m) == ~ObjHas(m, "name") \/ ObjGet(m, "name") = ""

\* line 185: models.some(m => !m.name)
HasInvalidModelsNever(models) == FALSE

HasInvalidModelsAlways(models) == TRUE

HasInvalidModels(models) == \E i \in 1..Len(models) : LacksName(models[i])

\* lines 184-190
PurgeBrokenAnthropic(c) ==
    IF /\ HasPath(c, <<"models", "providers", "anthropic", "models">>)
       /\ HasInvalidModels(GetPath(c, <<"models", "providers", "anthropic", "models">>))
    THEN DelPath(c, <<"models", "providers", "anthropic">>)
    ELSE c

\* lines 295-299 and 339-343
OpenAIBlock(baseUrl, models) ==
    << <<"baseUrl", baseUrl>>, <<"api", "openai-responses">>, <<"models", models>> >>

\* lines 310-317
GoogleBlock(baseUrl, en) ==
    LET b == << <<"baseUrl", IF baseUrl # <<>> THEN baseUrl
                             ELSE <<"https://generativelanguage.googleapis.com">> >>,
                <<"api", "google-generative-ai">>,
                <<"models", googleModels>> >>
    IN  IF en.OPENAI_API_KEY # "" THEN ObjSet(b, "apiKey", en.OPENAI_API_KEY) ELSE b

\* lines 363-376
AnthropicBlock(baseUrl, en) ==
    LET b == << <<"baseUrl", IF baseUrl # <<>> THEN baseUrl
                             ELSE <<"https://api.anthropic.com">> >>,
                <<"api", "anthropic-messages">>,
                <<"models", anthropicModels>> >>
    IN  IF en.ANTHROPIC_API_KEY # "" THEN ObjSet(b, "apiKey", en.ANTHROPIC_API_KEY) ELSE b

\* config.models.providers.<name> = block   (lines 295, 310, 339, 378)
AssignBlockKeepExisting(c, name, block) ==
    IF HasPath(c, <<"models", "providers", name>>) THEN c
    ELSE SetPath(c, <<"models", "providers", name>>, block)

AssignBlock(c, name, block) == SetPath(c, <<"models", "providers", name>>, block)

\* config.agents.defaults.models[prefix + m.id] = {alias: m.name}, for each prefix
RECURSIVE AllowModel(_, _, _)
AllowModel(c, prefixes, m) ==
    IF prefixes = <<>> THEN c
    ELSE AllowModel(SetPath(c, <<"agents", "defaults", "models",
                                 Head(prefixes) \o <<ObjGet(m, "id")>> >>,
                            << <<"alias", ObjGet(m, "name")>> >>),
                    Tail(prefixes), m)

\* models.forEach(m => ...)   (lines 302-307, 320-322, 346-348, 382-384)
RECURSIVE AllowModels(_, _, _)
AllowModels(c, prefixes, models) ==
    IF models = <<>> THEN c
    ELSE AllowModels(AllowModel(c, prefixes, Head(models)), prefixes, Tail(models))

\* lines 326-331, 351-356, 387-392
SetPrimary(c, en, default) ==
    SetPath(c, <<"agents", "defaults", "model", "primary">>,
            IF en.CF_AI_GATEWAY_MODEL # <<>> THEN en.CF_AI_GATEWAY_MODEL ELSE default)

\* lines 282-393
ConfigureProvider(c, en) ==
    LET baseUrl == ScriptBaseUrl(en)
        c1 == Ensure(Ensure(c, <<"models">>), <<"models", "providers">>)
    IN  IF isGoogle(baseUrl, en) THEN
            IF EndsWith(baseUrl, <<"/", "openai">>) THEN
                SetPrimary(
                    AllowModels(
                        Ensure(AssignBlock(c1, "openai", OpenAIBlock(baseUrl, googleModels)),
                               <<"agents", "defaults", "models">>),
                        << <<"google", "/">>, <<"openai", "/", "google", "/">> >>,
                        googleModels),
                    en, <<"google", "/", "gemini-3-flash">>)
            ELSE
                SetPrimary(
                    AllowModels(
                        Ensure(AssignBlock(c1, "google", GoogleBlock(baseUrl, en)),
                               <<"agents", "defaults", "models">>),
                        << <<"google", "/">> >>,
                        googleModels),
                    en, <<"google", "/", "gemini-3-flash">>)
        ELSE IF isOpenAI(baseUrl, en) THEN
            SetPrimary(
                AllowModels(
                    Ensure(AssignBlock(c1, "openai", OpenAIBlock(baseUrl, openaiModels)),
                           <<"agents", "defaults", "models">>),
                    << <<"openai", "/">> >>,
                    openaiModels),
                en, <<"openai", "/", "gpt-5.2">>)
        ELSE
            SetPrimary(
                AllowModels(
                    Ensure(AssignBlock(c1, "anthropic", AnthropicBlock(baseUrl, en)),
                           <<"agents", "defaults", "models">>),
                    << <<"anthropic", "/">> >>,
                    anthropicModels),
                en, <<"anthropic", "/", "claude-sonnet-4-5-20250929">>)

\* ------------------------------------- config update: gateway and channels
\* lines 176-180
EnsureSections(c) ==
    Ensure(Ensure(Ensure(Ensure(Ensure(c, <<"agents">>),
                                <<"agents", "defaults">>),
                         <<"agents", "defaults", "model">>),
                  <<"gateway">>),
           <<"channels">>)

\* lines 195-209
ConfigureGateway(c, en) ==
    LET c1 == SetPath(c, <<"gateway", "port">>, GatewayPort)
        c2 == SetPath(c1, <<"gateway", "mode">>, "local")
        c3 == SetPath(c2, <<"gateway", "trustedProxies">>, <<"10.1.0.0">>)
        c4 == IF en.CLAWDBOT_GATEWAY_TOKEN # ""
              THEN SetPath(Ensure(c3, <<"gateway", "auth">>),
                           <<"gateway", "auth", "token">>, en.CLAWDBOT_GATEWAY_TOKEN)
              ELSE c3
    IN  IF en.CLAWDBOT_DEV_MODE = "true"
        THEN SetPath(Ensure(c4, <<"gateway", "controlUi">>),
                     <<"gateway", "controlUi", "allowInsecureAuth">>, TRUE)
        ELSE c4

\* 'a,b'.split(','): the tokens between the commas
SplitCommas(s) == SelectSeq(s, LAMBDA t : t # ",")

\* lines 212-225
ConfigureTelegramAppends(c, en) ==
    IF en.TELEGRAM_BOT_TOKEN = "" THEN c
    ELSE LET c1 == Ensure(c, <<"channels", "telegram">>)
             old == IF HasPath(c1, <<"channels", "telegram", "allowFrom">>)
                    THEN GetPath(c1, <<"channels", "telegram", "allowFrom">>) ELSE <<>>
         IN  SetPath(c1, <<"channels", "telegram", "allowFrom">>,
                     old \o SplitCommas(en.TELEGRAM_DM_ALLOW_FROM))

ConfigureTelegram(c, en) ==
    IF en.TELEGRAM_BOT_TOKEN = "" THEN c
    ELSE LET policy == IF en.TELEGRAM_DM_POLICY # "" THEN en.TELEGRAM_DM_POLICY ELSE "pairing"
             c1 == Ensure(c, <<"channels", "telegram">>)
             c2 == SetPath(c1, <<"channels", "telegram", "botToken">>, en.TELEGRAM_BOT_TOKEN)
             c3 == SetPath(c2, <<"channels", "telegram", "enabled">>, TRUE)
             c4 == SetPath(c3, <<"channels", "telegram", "dmPolicy">>, policy)
         IN  IF en.TELEGRAM_DM_ALLOW_FROM # <<>>
             THEN SetPath(c4, <<"channels", "telegram", "allowFrom">>,
                          SplitCommas(en.TELEGRAM_DM_ALLOW_FROM))
             ELSE IF policy = "open"
             THEN SetPath(c4, <<"channels", "telegram", "allowFrom">>, <<"*">>)
             ELSE c4

\* lines 230-241
ConfigureDiscord(c, en) ==
    IF en.DISCORD_BOT_TOKEN = "" THEN c
    ELSE LET policy == IF en.DISCORD_DM_POLICY # "" THEN en.DISCORD_DM_POLICY ELSE "pairing"
             c1 == Ensure(c, <<"channels", "discord">>)
             c2 == SetPath(c1, <<"channels", "discord", "token">>, en.DISCORD_BOT_TOKEN)
             c3 == SetPath(c2, <<"channels", "discord", "enabled">>, TRUE)
             c4 == Ensure(c3, <<"channels", "discord", "dm">>)
             c5 == SetPath(c4, <<"channels", "discord", "dm", "policy">>, policy)
         IN  IF policy = "open"
             THEN SetPath(c5, <<"channels", "discord", "dm", "allowFrom">>, <<"*">>)
             ELSE c5

\* lines 244-249
ConfigureSlack(c, en) ==
    IF en.SLACK_BOT_TOKEN = "" \/ en.SLACK_APP_TOKEN = "" THEN c
    ELSE LET c1 == Ensure(c, <<"channels", "slack">>)
             c2 == SetPath(c1, <<"channels", "slack", "botToken">>, en.SLACK_BOT_TOKEN)
             c3 == SetPath(c2, <<"channels", "slack", "appToken">>, en.SLACK_APP_TOKEN)
         IN  SetPath(c3, <<"channels", "slack", "enabled">>, TRUE)

\* a config file: absent, not parseable as JSON, or holding an object
ConfigFile(content) == [state |-> "ok", content |-> content]

AbsentFile == [state |-> "absent", content |-> <<>>]

UnparseableFile == [state |-> "unparseable", content |-> <<>>]

\* lines 167-173: the file's content, or {} when it cannot be read or parsed
LoadConfig(file) == IF file.state = "ok" THEN file.content ELSE <<>>

\* lines 162-399: the config the node block writes back; the statements run
\* in the order of the source, each on the result of the one before
Synthesize(file, en) ==
    CHOOSE written \in
        { ConfigFile(ConfigureProvider(c5, en)) : c5 \in
        { ConfigureSlack(c4, en) : c4 \in
        { ConfigureDiscord(c3, en) : c3 \in
        { ConfigureTelegram(c2, en) : c2 \in
        { ConfigureGateway(c1, en) : c1 \in
        { PurgeBrokenAnthropic(c0) : c0 \in
        { EnsureSections(LoadConfig(file)) } } } } } } } : TRUE

\* ---------------------------------------------- config update: the inputs
GatewayRoot == "https://gateway.ai.cloudflare.com/v1/acct/gw"

BaseUrls ==
    { <<>>,
      <<GatewayRoot, "/", "anthropic">>,
      <<GatewayRoot, "/", "openai">>,
      <<GatewayRoot, "/", "openai", "/", "/">>,
      <<GatewayRoot, "/", "google">>,
      <<"https://gemini.example.com", "/", "openai">>,
      <<"https://gemini.example.com", "/", "v1">> }

ModelNames ==
    { <<>>,
      <<"google", "/", "gemini-3-flash">>,
      <<"openai", "/", "gpt-5">>,
      <<"anthropic", "/", "claude-3-opus-latest">>,
      <<"gemini-pro">> }

ChannelEnvs ==
    { [CLAWDBOT_GATEWAY_TOKEN |-> "", CLAWDBOT_DEV_MODE |-> "",
       TELEGRAM_BOT_TOKEN |-> "", TELEGRAM_DM_POLICY |-> "", TELEGRAM_DM_ALLOW_FROM |-> <<>>,
       DISCORD_BOT_TOKEN |-> "", DISCORD_DM_POLICY |-> "",
       SLACK_BOT_TOKEN |-> "", SLACK_APP_TOKEN |-> ""],
      [CLAWDBOT_GATEWAY_TOKEN |-> "gw-token", CLAWDBOT_DEV_MODE |-> "true",
       TELEGRAM_BOT_TOKEN |-> "tg", TELEGRAM_DM_POLICY |-> "open", TELEGRAM_DM_ALLOW_FROM |-> <<>>,
       DISCORD_BOT_TOKEN |-> "dc", DISCORD_DM_POLICY |-> "open",
       SLACK_BOT_TOKEN |-> "xoxb", SLACK_APP_TOKEN |-> "xapp"],
      [CLAWDBOT_GATEWAY_TOKEN |-> "gw-token", CLAWDBOT_DEV_MODE |-> "false",
       TELEGRAM_BOT_TOKEN |-> "tg", TELEGRAM_DM_POLICY |-> "", TELEGRAM_DM_ALLOW_FROM |-> <<"123", ",", "456">>,
       DISCORD_BOT_TOKEN |-> "dc", DISCORD_DM_POLICY |-> "",
       SLACK_BOT_TOKEN |-> "xoxb", SLACK_APP_TOKEN |-> ""] }

ProviderEnvs ==
    [AI_GATEWAY_BASE_URL : BaseUrls,
     ANTHROPIC_BASE_URL : {<<>>, <<"https://proxy.example.com", "/", "anthropic", "/">>},
     CF_AI_GATEWAY_MODEL : ModelNames,
     OPENAI_API_KEY : {"", "sk-openai"},
     ANTHROPIC_API_KEY : {"", "sk-ant"}]

MergeEnv(a, b) ==
    [k \in DOMAIN a \cup DOMAIN b |-> IF k \in DOMAIN a THEN a[k] ELSE b[k]]

ScriptEnvs == {MergeEnv(a, b) : a \in ProviderEnvs, b \in ChannelEnvs}

\* lines 141-153: the minimal config written when there is neither config nor template
MinimalConfig ==
    << <<"agents", << <<"defaults", << <<"workspace", "/root/clawd">> >> >> >> >>,
       <<"gateway", << <<"port", GatewayPort>>, <<"mode", "local">> >> >> >>

\* provider blocks a config written earlier (by this or an older version of
\* the script, or by hand) can hold
PriorBlocks ==
    << << <<"baseUrl", <<"https://old.example.com">> >>, <<"api", "old-api">>,
          <<"models", << ModelEntry("old-model", "Old Model", 1000) >> >> >>,
       << <<"baseUrl", <<"https://old.example.com">> >>, <<"api", "old-api">>,
          <<"models", << ModelEntry("old-model", "Old Model", 1000),
                         << <<"id", "nameless-model">> >> >> >>,
          <<"apiKey", "sk-old">> >>,
       << <<"baseUrl", <<"https://old.example.com">> >> >> >>

RECURSIVE WithBlocks(_, _)
WithBlocks(names, choice) ==
    IF names = <<>> THEN <<>>
    ELSE (IF choice[Head(names)] = 0 THEN <<>>
          ELSE << <<Head(names), PriorBlocks[choice[Head(names)]]>> >>)
         \o WithBlocks(Tail(names), choice)

PriorConfigFiles ==
    {AbsentFile, UnparseableFile, ConfigFile(MinimalConfig)}
    \cup { ConfigFile(Append(MinimalConfig,
                  <<"models", << <<"providers",
                                   WithBlocks(<<"anthropic", "openai", "google">>, choice)>> >> >>))
           : choice \in [ProviderNames -> 0..Len(PriorBlocks)] }

\* ------------------------------------------------ launch script: restore
\* a .last-sync file: absent, or holding one line of text
NoFile == [exists |-> FALSE, text |-> ""]

SyncFile(text) == [exists |-> TRUE, text |-> text]

SyncTexts == {"2024-01-01T00:00:00Z", "2024-01-02T00:00:00Z", "not-a-date"}

\* lines 89-90: date -d "$T" +%s 2>/dev/null || echo "0"
DateEpoch(text) ==
    CASE text = "2024-01-01T00:00:00Z" -> 1704067200
      [] text = "2024-01-02T00:00:00Z" -> 1704153600
      [] OTHER -> 0

\* lines 65-99
should_restore_from_r2_OrEqual(r2Sync, local) ==
    IF ~r2Sync.exists THEN FALSE
    ELSE IF ~local.exists THEN TRUE
    ELSE DateEpoch(r2Sync.text) >= DateEpoch(local.text)

should_restore_from_r2(r2Sync, local) ==
    IF ~r2Sync.exists THEN FALSE
    ELSE IF ~local.exists THEN TRUE
    ELSE DateEpoch(r2Sync.text) > DateEpoch(local.text)

\* lines 101, 109, 117: which branch of the restore block the backup selects
Layouts == {"nested", "legacy", "empty", "unmounted"}

\* lines 104 and 106, 113 and 114: the local .last-sync after a restore. The
\* copied tree may carry a .last-sync of its own; cp -f of the remote one
\* replaces it, and when that cp fails "|| true" leaves what the tree copy left
StampedNever(bk, local, cpOk) == local

StampedFromTree(bk, local, cpOk) ==
    IF bk.treeSync.exists THEN bk.treeSync ELSE bk.sync

Stamped(bk, local, cpOk) ==
    IF cpOk THEN bk.sync
    ELSE IF bk.treeSync.exists THEN bk.treeSync
    ELSE local

\* lines 71, 77, 85, 86, 93, 96, 103, 107: what a run's restore block logs
NoDecision ==
    [asked |-> FALSE, remote |-> NoFile, local |-> NoFile, decision |-> FALSE,
     stamped |-> FALSE, skills |-> FALSE]

\* ---------------------------------------------- launch script: supervisor
TailLines == 50

ExitCodes == {0, 1, 137}

\* lines 443, 446: clawdbot gateway ... || keep_alive_on_crash $?
EntersFallbackOnSignalOnly(code) == code > 128

EntersFallback(code) == code # 0

\* lines 426-427: the exit code and tail -n 50 of the log
CrashResponse(code, lines) ==
    [code |-> code,
     tailFrom |-> IF lines > TailLines THEN lines - TailLines + 1 ELSE 1,
     tailTo |-> lines]

NoResponse == [code |-> -1, tailFrom |-> 0, tailTo |-> 0]

\* line 14: what a step prints is appended to the log file
Logged(lines) == lines + 1

\* an earlier instance of the script in keep_alive_on_crash: the script is
\* between two listeners ("prepare") or waits for its listener ("listening");
\* the nc process listens, has answered and ended, or was killed
NoEarlier == [script |-> "none", nc |-> "none"]

EarlierDegraded ==
    {[script |-> "prepare", nc |-> "none"], [script |-> "listening", nc |-> "listening"]}

HoldsPort(nc) == nc = "listening"

\* line 21: pkill -f "nc -l -p 18789" || true
AfterPkillListener(nc) == IF HoldsPort(nc) THEN "killed" ELSE nc

\* lines 37-42: nc -z localhost 18789 succeeds when the port is held, and then
\* pkill -9 -f "nc"
AfterPortCheckNoKill(nc) == nc

AfterPortCheck(nc) == IF HoldsPort(nc) THEN "killed" ELSE nc

\* the template file's content (the file itself is not part of the sources)
TemplateConfig ==
    << <<"gateway", << <<"port", GatewayPort>> >> >> >>

NotStarted == [state |-> "notStarted", code |-> -1]

NoEnv ==
    [AI_GATEWAY_BASE_URL |-> <<>>, ANTHROPIC_BASE_URL |-> <<>>, CF_AI_GATEWAY_MODEL |-> <<>>,
     OPENAI_API_KEY |-> "", ANTHROPIC_API_KEY |-> "",
     CLAWDBOT_GATEWAY_TOKEN |-> "", CLAWDBOT_DEV_MODE |-> "",
     TELEGRAM_BOT_TOKEN |-> "", TELEGRAM_DM_POLICY |-> "", TELEGRAM_DM_ALLOW_FROM |-> <<>>,
     DISCORD_BOT_TOKEN |-> "", DISCORD_DM_POLICY |-> "",
     SLACK_BOT_TOKEN |-> "", SLACK_APP_TOKEN |-> ""]

\* the script's state outside the config file and the environment, before a run
ScriptRest ==
    /\ backup = [layout |-> "unmounted", sync |-> NoFile, treeSync |-> NoFile,
                 config |-> AbsentFile, skills |-> "absent"]
    /\ localSync = NoFile
    /\ template = FALSE
    /\ skillsDir = "empty"
    /\ runs = 0
    /\ restored = [config |-> FALSE, skills |-> FALSE]
    /\ runLog = <<>>
    /\ service = NotStarted
    /\ response = NoResponse
    /\ answers = <<>>
    /\ ncFailed = FALSE
    /\ logLen = 0

ScriptIdle ==
    /\ spc = "idle"
    /\ configFile = AbsentFile
    /\ env = NoEnv
    /\ readConfig = <<>>
    /\ ScriptRest
    /\ earlier = NoEarlier

\* ------------------------------------------------------------ buildEnvVars
\* the bindings buildEnvVars reads; "" and <<>> stand for a binding that is
\* not set or empty (both falsy)
NoWorkerEnv ==
    [AI_GATEWAY_BASE_URL |-> <<>>, CLOUDFLARE_AI_GATEWAY_ID |-> "", CF_ACCOUNT_ID |-> "",
     CF_AI_GATEWAY_MODEL |-> <<>>, AI_GATEWAY_API_KEY |-> "",
     CLOUDFLARE_AI_GATEWAY_API_KEY |-> "", ANTHROPIC_API_KEY |-> "", OPENAI_API_KEY |-> "",
     ANTHROPIC_BASE_URL |-> <<>>, MOLTBOT_GATEWAY_TOKEN |-> "", DEV_MODE |-> "",
     CLAWDBOT_BIND_MODE |-> "", TELEGRAM_BOT_TOKEN |-> "", TELEGRAM_DM_POLICY |-> "",
     DISCORD_BOT_TOKEN |-> "", DISCORD_DM_POLICY |-> "", SLACK_BOT_TOKEN |-> "",
     SLACK_APP_TOKEN |-> "", CDP_SECRET |-> "", WORKER_URL |-> ""]

\* the bindings modelled as token sequences; the others are plain strings
TokenBindings == {"AI_GATEWAY_BASE_URL", "ANTHROPIC_BASE_URL", "CF_AI_GATEWAY_MODEL"}

\* if (env.X): the binding is set and not empty
Truthy(we, k) == IF k \in TokenBindings THEN we[k] # <<>> ELSE we[k] # ""

\* lines 143-156: the explicit base URL, or one built from the gateway ids
WorkerBaseUrlAlwaysAnthropic(we) ==
    IF we.AI_GATEWAY_BASE_URL # <<>> THEN we.AI_GATEWAY_BASE_URL
    ELSE IF we.CLOUDFLARE_AI_GATEWAY_ID # "" /\ we.CF_ACCOUNT_ID # ""
    THEN <<"https://gateway.ai.cloudflare.com/v1", "/", we.CF_ACCOUNT_ID, "/",
           we.CLOUDFLARE_AI_GATEWAY_ID, "/", "anthropic">>
    ELSE <<>>

WorkerBaseUrl(we) ==
    IF we.AI_GATEWAY_BASE_URL # <<>> THEN we.AI_GATEWAY_BASE_URL
    ELSE IF we.CLOUDFLARE_AI_GATEWAY_ID # "" /\ we.CF_ACCOUNT_ID # ""
    THEN <<"https://gateway.ai.cloudflare.com/v1", "/", we.CF_ACCOUNT_ID, "/",
           we.CLOUDFLARE_AI_GATEWAY_ID, "/",
           IF \/ StartsWith(we.CF_AI_GATEWAY_MODEL, <<"google", "/">>)
              \/ IncludesGemini(we.CF_AI_GATEWAY_MODEL)
           THEN "openai" ELSE "anthropic">>
    ELSE <<>>

\* line 158
normalizedBaseUrl(we) == StripTrailingSlashes(WorkerBaseUrl(we))

\* line 159
isOpenAIGatewayNever(we) == FALSE

isOpenAIGateway(we) == EndsWith(normalizedBaseUrl(we), <<"/", "openai">>)

\* line 165
GatewayApiKey(we) ==
    IF we.AI_GATEWAY_API_KEY # "" THEN we.AI_GATEWAY_API_KEY
    ELSE we.CLOUDFLARE_AI_GATEWAY_API_KEY

\* lines 167-173
RouteGatewayKey(ev, we) ==
    IF GatewayApiKey(we) = "" THEN ev
    ELSE IF isOpenAIGateway(we) THEN ObjSet(ev, "OPENAI_API_KEY", GatewayApiKey(we))
    ELSE ObjSet(ev, "ANTHROPIC_API_KEY", GatewayApiKey(we))

\* lines 176-181: if (!envVars.K && env.K) envVars.K = env.K
FallBackToDirectKey(ev, we, k) ==
    IF (~ObjHas(ev, k) \/ ObjGet(ev, k) = "") /\ Truthy(we, k)
    THEN ObjSet(ev, k, we[k]) ELSE ev

\* lines 184-194
PassBaseUrl(ev, we) ==
    IF normalizedBaseUrl(we) # <<>>
    THEN ObjSet(ObjSet(ev, "AI_GATEWAY_BASE_URL", normalizedBaseUrl(we)),
                IF isOpenAIGateway(we) THEN "OPENAI_BASE_URL" ELSE "ANTHROPIC_BASE_URL",
                normalizedBaseUrl(we))
    ELSE IF we.ANTHROPIC_BASE_URL # <<>>
    THEN ObjSet(ev, "ANTHROPIC_BASE_URL", we.ANTHROPIC_BASE_URL)
    ELSE ev

\* lines 196-210: <<binding, variable>> in the order of the statements
PassedThrough ==
    << <<"MOLTBOT_GATEWAY_TOKEN", "CLAWDBOT_GATEWAY_TOKEN">>,
       <<"DEV_MODE", "CLAWDBOT_DEV_MODE">>,
       <<"CLAWDBOT_BIND_MODE", "CLAWDBOT_BIND_MODE">>,
       <<"TELEGRAM_BOT_TOKEN", "TELEGRAM_BOT_TOKEN">>,
       <<"TELEGRAM_DM_POLICY", "TELEGRAM_DM_POLICY">>,
       <<"DISCORD_BOT_TOKEN", "DISCORD_BOT_TOKEN">>,
       <<"DISCORD_DM_POLICY", "DISCORD_DM_POLICY">>,
       <<"SLACK_BOT_TOKEN", "SLACK_BOT_TOKEN">>,
       <<"SLACK_APP_TOKEN", "SLACK_APP_TOKEN">>,
       <<"CDP_SECRET", "CDP_SECRET">>,
       <<"WORKER_URL", "WORKER_URL">>,
       <<"WORKER_URL", "WORKER_URL">>,
       <<"CF_ACCOUNT_ID", "CF_ACCOUNT_ID">>,
       <<"CF_AI_GATEWAY_MODEL", "CF_AI_GATEWAY_MODEL">> >>

\* if (env.X) envVars.Y = env.X, statement by statement
RECURSIVE PassThrough(_, _, _)
PassThrough(ev, we, pairs) ==
    IF pairs = <<>> THEN ev
    ELSE PassThrough(IF Truthy(we, Head(pairs)[1])
                     THEN ObjSet(ev, Head(pairs)[2], we[Head(pairs)[1]])
                     ELSE ev,
                     we, Tail(pairs))

\* lines 134-213
buildEnvVars(we) ==
    PassThrough(
        PassBaseUrl(
            FallBackToDirectKey(
                FallBackToDirectKey(RouteGatewayKey(<<>>, we), we, "ANTHROPIC_API_KEY"),
                we, "OPENAI_API_KEY"),
            we),
        we, PassedThrough)

\* the bindings of the invocations that are checked
PassThroughBindings ==
    { [MOLTBOT_GATEWAY_TOKEN |-> "", DEV_MODE |-> "", CLAWDBOT_BIND_MODE |-> "",
       TELEGRAM_BOT_TOKEN |-> "", TELEGRAM_DM_POLICY |-> "", DISCORD_BOT_TOKEN |-> "",
       DISCORD_DM_POLICY |-> "", SLACK_BOT_TOKEN |-> "", SLACK_APP_TOKEN |-> "",
       CDP_SECRET |-> "", WORKER_URL |-> ""],
      [MOLTBOT_GATEWAY_TOKEN |-> "gw-token", DEV_MODE |-> "true", CLAWDBOT_BIND_MODE |-> "lan",
       TELEGRAM_BOT_TOKEN |-> "tg", TELEGRAM_DM_POLICY |-> "open", DISCORD_BOT_TOKEN |-> "dc",
       DISCORD_DM_POLICY |-> "pairing", SLACK_BOT_TOKEN |-> "xoxb", SLACK_APP_TOKEN |-> "xapp",
       CDP_SECRET |-> "cdp", WORKER_URL |-> "https://worker.example.com"] }

ProviderBindings ==
    [AI_GATEWAY_BASE_URL : BaseUrls,
     CLOUDFLARE_AI_GATEWAY_ID : {"", "gw"},
     CF_ACCOUNT_ID : {"", "acct"},
     CF_AI_GATEWAY_MODEL : ModelNames,
     AI_GATEWAY_API_KEY : {"", "gw-key"},
     CLOUDFLARE_AI_GATEWAY_API_KEY : {"", "cf-key"},
     ANTHROPIC_API_KEY : {"", "sk-ant"},
     OPENAI_API_KEY : {"", "sk-openai"},
     ANTHROPIC_BASE_URL : {<<>>, <<"https://proxy.example.com", "/", "anthropic", "/">>}]

WorkerEnvs == {MergeEnv(a, b) : a \in ProviderBindings, b \in PassThroughBindings}

\* ------------------------------------------------------------------- Init
PriorProcs ==
    UNION { [1..n -> [command : Commands, status : Statuses]] : n \in 0..MaxPrior }

OrchFresh ==
    /\ listOk = FALSE
    /\ found = <<>>
    /\ ki = 1
    /\ killLog = <<>>
    /\ graceDone = FALSE
    /\ startCalls = 0
    /\ preStart = None
    /\ process = 0
    /\ waitOutcome = "none"
    /\ logsReady = "none"
    /\ logsCatch = "none"
    /\ capturedLogs = None
    /\ e = None
    /\ result = None
    /\ envVars = <<>>

InitOrch ==
    /\ \E ps \in PriorProcs :
          procs = [i \in 1..Len(ps) |-> ProcRecord(i, ps[i].command, ps[i].status)]
    /\ pc = "mount"
    /\ workerEnv = NoWorkerEnv
    /\ OrchFresh
    /\ peer = NoPeer
    /\ mw = NoRequest

\* no invocation of ensureMoltbotGateway is in progress
OrchIdle ==
    /\ procs = <<>>
    /\ pc = "idle"
    /\ workerEnv = NoWorkerEnv
    /\ OrchFresh
    /\ peer = NoPeer
    /\ mw = NoRequest

Init == InitOrch /\ ScriptIdle

\* ----------------------------------------------- ensureMoltbotGateway steps
\* line 58: await mountR2Storage(sandbox, env)
MountR2Storage ==
    /\ pc = "mount"
    /\ pc' = "discover"
    /\ UNCHANGED <<procs, listOk, found, ki, killLog, graceDone, startCalls,
                   preStart, process, waitOutcome, logsReady, logsCatch,
                   capturedLogs, e, result>>
    /\ UNCHANGED <<workerEnv, envVars, scriptVars, peer, mw>>

\* line 61 with lines 13-34: listProcesses resolves and the listing is filtered
DiscoverListed ==
    /\ pc = "discover"
    /\ listOk' = TRUE
    /\ found' = findExistingMoltbotProcesses(procs, TRUE)
    /\ ki' = 1
    /\ pc' = IF NeedsCleanup(found') THEN "kill" ELSE "start"
    /\ UNCHANGED <<procs, killLog, graceDone, startCalls, preStart, process,
                   waitOutcome, logsReady, logsCatch, capturedLogs, e, result>>
    /\ UNCHANGED <<workerEnv, envVars, scriptVars, peer, mw>>

\* line 61 with lines 30-33: listProcesses rejects, discovery yields []
DiscoverListFailed ==
    /\ pc = "discover"
    /\ listOk' = FALSE
    /\ found' = findExistingMoltbotProcesses(procs, FALSE)
    /\ ki' = 1
    /\ pc' = IF NeedsCleanup(found') THEN "kill" ELSE "start"
    /\ UNCHANGED <<procs, killLog, graceDone, startCalls, preStart, process,
                   waitOutcome, logsReady, logsCatch, capturedLogs, e, result>>
    /\ UNCHANGED <<workerEnv, envVars, scriptVars, peer, mw>>

\* lines 67-74, one iteration: proc.kill() resolves, the record is terminated
KillResolved ==
    /\ pc = "kill"
    /\ ki <= Len(KillTargets(found, procs))
    /\ LET id == KillTargets(found, procs)[ki] IN
          /\ killLog' = Append(killLog, [id |-> id, status |-> procs[id].status, ok |-> TRUE])
          /\ procs' = [procs EXCEPT ![id].status = "killed"]
    /\ ki' = ki + 1
    /\ UNCHANGED <<pc, listOk, found, graceDone, startCalls, preStart, process,
                   waitOutcome, logsReady, logsCatch, capturedLogs, e, result>>
    /\ UNCHANGED <<workerEnv, envVars, scriptVars, peer, mw>>

\* lines 67-74, one iteration: proc.kill() rejects, the error is logged
KillRejectedEndsLoop ==
    /\ pc = "kill"
    /\ ki <= Len(KillTargets(found, procs))
    /\ LET id == KillTargets(found, procs)[ki] IN
          killLog' = Append(killLog, [id |-> id, status |-> procs[id].status, ok |-> FALSE])
    /\ ki' = Len(KillTargets(found, procs)) + 1
    /\ UNCHANGED <<procs, pc, listOk, found, graceDone, startCalls, preStart,
                   process, waitOutcome, logsReady, logsCatch, capturedLogs, e, result>>
    /\ UNCHANGED <<workerEnv, envVars, scriptVars, peer, mw>>

KillRejected ==
    /\ pc = "kill"
    /\ ki <= Len(KillTargets(found, procs))
    /\ LET id == KillTargets(found, procs)[ki] IN
          killLog' = Append(killLog, [id |-> id, status |-> procs[id].status, ok |-> FALSE])
    /\ ki' = ki + 1
    /\ UNCHANGED <<procs, pc, listOk, found, graceDone, startCalls, preStart,
                   process, waitOutcome, logsReady, logsCatch, capturedLogs, e, result>>
    /\ UNCHANGED <<workerEnv, envVars, scriptVars, peer, mw>>

\* line 76: the loop is over, the 2000 ms timer resolves
GraceWait ==
    /\ pc = "kill"
    /\ ki > Len(KillTargets(found, procs))
    /\ graceDone' = TRUE
    /\ pc' = "start"
    /\ UNCHANGED <<procs, listOk, found, ki, killLog, startCalls, preStart,
                   process, waitOutcome, logsReady, logsCatch, capturedLogs, e, result>>
    /\ UNCHANGED <<workerEnv, envVars, scriptVars, peer, mw>>

StartSnapshot == [kills |-> Len(killLog), grace |-> graceDone]

\* lines 87-92: startProcess resolves with a new record
StartResolved ==
    /\ pc = "start"
    /\ startCalls' = startCalls + 1
    /\ preStart' = StartSnapshot
    /\ \E st \in {"starting", "running"} :
          procs' = Append(procs, ProcRecord(Len(procs) + 1, LaunchCommand, st))
    /\ process' = Len(procs) + 1
    /\ pc' = "wait"
    /\ UNCHANGED <<listOk, found, ki, killLog, graceDone, waitOutcome,
                   logsReady, logsCatch, capturedLogs, e, result>>
    /\ envVars' = buildEnvVars(workerEnv)
    /\ UNCHANGED <<workerEnv, scriptVars, peer, mw>>

\* lines 93-96: startProcess rejects, the error is rethrown
StartRejectedTriesAgain ==
    /\ pc = "start"
    /\ startCalls < 2
    /\ startCalls' = startCalls + 1
    /\ preStart' = StartSnapshot
    /\ UNCHANGED <<procs, pc, result, listOk, found, ki, killLog, graceDone, process,
                   waitOutcome, logsReady, logsCatch, capturedLogs, e>>
    /\ envVars' = buildEnvVars(workerEnv)
    /\ UNCHANGED <<workerEnv, scriptVars, peer, mw>>

StartRejected ==
    /\ pc = "start"
    /\ startCalls' = startCalls + 1
    /\ preStart' = StartSnapshot
    /\ result' = [kind |-> "threw", error |-> Err("startProcess")]
    /\ pc' = "done"
    /\ UNCHANGED <<procs, listOk, found, ki, killLog, graceDone, process,
                   waitOutcome, logsReady, logsCatch, capturedLogs, e>>
    /\ envVars' = buildEnvVars(workerEnv)
    /\ UNCHANGED <<workerEnv, scriptVars, peer, mw>>

\* line 101: waitForPort resolves, the port answers and the record is running
WaitResolved ==
    /\ pc = "wait"
    /\ waitOutcome' = "ok"
    /\ procs' = [procs EXCEPT ![process].status = IF @ = "killed" THEN @ ELSE "running"]
    /\ pc' = "logsReady"
    /\ UNCHANGED <<listOk, found, ki, killLog, graceDone, startCalls, preStart,
                   process, logsReady, logsCatch, capturedLogs, e, result>>
    /\ UNCHANGED <<workerEnv, envVars, scriptVars, peer, mw>>

\* line 101 rejects (timeout or another error): control goes to catch (e), line 107
WaitRejected ==
    /\ pc = "wait"
    /\ waitOutcome' = "failed"
    /\ \E err \in WaitErrors : e' = err
    /\ pc' = "catch"
    /\ UNCHANGED <<procs, listOk, found, ki, killLog, graceDone, startCalls,
                   preStart, process, logsReady, logsCatch, capturedLogs, result>>
    /\ UNCHANGED <<workerEnv, envVars, scriptVars, peer, mw>>

\* lines 104-106, 120-123: getLogs resolves, the process is returned
LogsReadyResolved ==
    /\ pc = "logsReady"
    /\ logsReady' = "ok"
    /\ result' = [kind |-> "returned", process |-> process]
    /\ pc' = "done"
    /\ UNCHANGED <<procs, listOk, found, ki, killLog, graceDone, startCalls,
                   preStart, process, waitOutcome, logsCatch, capturedLogs, e>>
    /\ UNCHANGED <<workerEnv, envVars, scriptVars, peer, mw>>

\* line 104 rejects inside the try of line 99: control goes to catch (e), line 107
LogsReadyRejected ==
    /\ pc = "logsReady"
    /\ logsReady' = "failed"
    /\ e' = Err("getLogs")
    /\ pc' = "catch"
    /\ UNCHANGED <<procs, listOk, found, ki, killLog, graceDone, startCalls,
                   preStart, process, waitOutcome, logsCatch, capturedLogs, result>>
    /\ UNCHANGED <<workerEnv, envVars, scriptVars, peer, mw>>

\* lines 109-117: getLogs resolves, line 113 throws inside the inner try
CatchLogsResolved ==
    /\ pc = "catch"
    /\ logsCatch' = "ok"
    /\ \E err \in StderrTexts, out \in {"", "boot"} :
          /\ capturedLogs' = [stdout |-> out, stderr |-> err]
          /\ result' = [kind |-> "threw",
                        error |-> InnerCatch(DescriptiveError(capturedLogs'), e)]
    /\ pc' = "done"
    /\ UNCHANGED <<procs, listOk, found, ki, killLog, graceDone, startCalls,
                   preStart, process, waitOutcome, logsReady, e>>
    /\ UNCHANGED <<workerEnv, envVars, scriptVars, peer, mw>>

\* lines 109-117: getLogs rejects inside the inner try
CatchLogsRejected ==
    /\ pc = "catch"
    /\ logsCatch' = "failed"
    /\ result' = [kind |-> "threw", error |-> InnerCatch(Err("getLogs2"), e)]
    /\ pc' = "done"
    /\ UNCHANGED <<procs, listOk, found, ki, killLog, graceDone, startCalls,
                   preStart, process, waitOutcome, logsReady, capturedLogs, e>>
    /\ UNCHANGED <<workerEnv, envVars, scriptVars, peer, mw>>

NextOrch ==
    \/ MountR2Storage
    \/ DiscoverListed
    \/ DiscoverListFailed
    \/ KillResolved
    \/ KillRejected
    \/ GraceWait
    \/ StartResolved
    \/ StartRejected
    \/ WaitResolved
    \/ WaitRejected
    \/ LogsReadyResolved
    \/ LogsReadyRejected
    \/ CatchLogsResolved
    \/ CatchLogsRejected

Next == NextOrch

Spec == Init /\ [][Next]_vars

\* ------------------------------- a second invocation on the same sandbox
\* line 58 in the second invocation
PeerMount ==
    /\ peer.pc = "mount"
    /\ peer' = [peer EXCEPT !.pc = "discover"]
    /\ UNCHANGED <<orchVars, scriptVars, mw>>

\* line 61 with lines 13-34: the listing resolves and is filtered, or rejects
PeerDiscover ==
    /\ peer.pc = "discover"
    /\ \E resolved \in BOOLEAN :
          LET existing == findExistingMoltbotProcesses(procs, resolved) IN
          peer' = [peer EXCEPT !.found = existing, !.ki = 1,
                               !.pc = IF NeedsCleanup(existing) THEN "kill" ELSE "start"]
    /\ UNCHANGED <<orchVars, scriptVars, mw>>

\* lines 67-74, one iteration: proc.kill() resolves or rejects
PeerKill ==
    /\ peer.pc = "kill"
    /\ peer.ki <= Len(KillTargets(peer.found, procs))
    /\ \E ok \in BOOLEAN :
          procs' = IF ok
                   THEN [procs EXCEPT ![KillTargets(peer.found, procs)[peer.ki]].status = "killed"]
                   ELSE procs
    /\ peer' = [peer EXCEPT !.ki = @ + 1]
    /\ UNCHANGED <<pc, listOk, found, ki, killLog, graceDone, startCalls, preStart,
                   process, waitOutcome, logsReady, logsCatch, capturedLogs, e, result,
                   workerEnv, envVars, scriptVars, mw>>

\* line 76
PeerGraceWait ==
    /\ peer.pc = "kill"
    /\ peer.ki > Len(KillTargets(peer.found, procs))
    /\ peer' = [peer EXCEPT !.pc = "start"]
    /\ UNCHANGED <<orchVars, scriptVars, mw>>

\* lines 87-96: startProcess resolves with a new record, or rejects
PeerStart ==
    /\ peer.pc = "start"
    /\ \/ /\ \E st \in {"starting", "running"} :
                procs' = Append(procs, ProcRecord(Len(procs) + 1, LaunchCommand, st))
          /\ peer' = [peer EXCEPT !.process = Len(procs) + 1, !.pc = "wait"]
       \/ /\ procs' = procs
          /\ peer' = [peer EXCEPT !.pc = "done",
                                  !.result = [kind |-> "threw", error |-> Err("startProcess")]]
    /\ UNCHANGED <<pc, listOk, found, ki, killLog, graceDone, startCalls, preStart,
                   process, waitOutcome, logsReady, logsCatch, capturedLogs, e, result,
                   workerEnv, envVars, scriptVars, mw>>

\* line 101: waitForPort resolves or rejects
PeerWait ==
    /\ peer.pc = "wait"
    /\ \/ /\ procs' = [procs EXCEPT ![peer.process].status =
                                        IF @ = "killed" THEN @ ELSE "running"]
          /\ peer' = [peer EXCEPT !.pc = "logsReady"]
       \/ /\ procs' = procs
          /\ peer' = [peer EXCEPT !.pc = "catch"]
    /\ UNCHANGED <<pc, listOk, found, ki, killLog, graceDone, startCalls, preStart,
                   process, waitOutcome, logsReady, logsCatch, capturedLogs, e, result,
                   workerEnv, envVars, scriptVars, mw>>

\* lines 104-106, 120-123: getLogs resolves and the process is returned, or
\* rejects into catch (e)
PeerLogsReady ==
    /\ peer.pc = "logsReady"
    /\ \/ peer' = [peer EXCEPT !.pc = "done",
                               !.result = [kind |-> "returned", process |-> peer.process]]
       \/ peer' = [peer EXCEPT !.pc = "catch"]
    /\ UNCHANGED <<orchVars, scriptVars, mw>>

\* lines 107-118: the catch block throws
PeerCatch ==
    /\ peer.pc = "catch"
    /\ peer' = [peer EXCEPT !.pc = "done",
                            !.result = [kind |-> "threw", error |-> Err("startup")]]
    /\ UNCHANGED <<orchVars, scriptVars, mw>>

\* two invocations on a sandbox with no process or with one running gateway
InitPair ==
    /\ procs \in {<<>>, <<ProcRecord(1, LaunchCommand, "running")>>}
    /\ pc = "mount"
    /\ workerEnv = NoWorkerEnv
    /\ OrchFresh
    /\ peer = [NoPeer EXCEPT !.pc = "mount"]
    /\ mw = NoRequest
    /\ ScriptIdle

NextPair ==
    \/ NextOrch
    \/ PeerMount
    \/ PeerDiscover
    \/ PeerKill
    \/ PeerGraceWait
    \/ PeerStart
    \/ PeerWait
    \/ PeerLogsReady
    \/ PeerCatch

SpecPair == InitPair /\ [][NextPair]_vars

\* ------------------------------------------------- createAccessMiddleware
\* lines 232-234
isDevModeTruthy(en) == en.DEV_MODE # ""

isDevMode(en) == en.DEV_MODE = "true"

\* lines 239-241
isE2ETestMode(en) == en.E2E_TEST_MODE = "true"

\* header.split(';').find(c => c.trim().startsWith(name + '='))?.split('=')[1]:
\* the Cookie header is a sequence of cookies, a cookie the sequence of its
\* parts between '=' signs; the second part of the first cookie of that name
CookiePart(cookies, name) ==
    LET at == {i \in 1..Len(cookies) : Len(cookies[i]) >= 2 /\ cookies[i][1] = name}
    IN  IF at = {} THEN Undefined
        ELSE cookies[CHOOSE i \in at : \A j \in at : i <= j][2]

\* lines 246-255: jwtHeader || jwtCookie || null
extractJWT(req) ==
    IF req.jwtHeader \notin {Undefined, ""} THEN req.jwtHeader
    ELSE IF CookiePart(req.cookies, "CF_Authorization") \notin {Undefined, ""}
    THEN CookiePart(req.cookies, "CF_Authorization")
    ELSE Undefined

\* lines 274-292: the gateway token is set and the query or cookie token is it
TokenAccepted(en, req) ==
    /\ en.MOLTBOT_GATEWAY_TOKEN # ""
    /\ \/ req.queryToken = en.MOLTBOT_GATEWAY_TOKEN
       \/ CookiePart(req.cookies, "moltbot-token") = en.MOLTBOT_GATEWAY_TOKEN

Response(status, kind) == [kind |-> kind, status |-> status]

\* lines 267-363: from the entry to return next(), to an error or redirect
\* response, or to the call of verifyAccessJWT
AccessCheck ==
    /\ mw.pc = "entry"
    /\ mw' =
          IF isDevMode(mw.env) \/ isE2ETestMode(mw.env)
          THEN [mw EXCEPT !.accessUser = "dev@localhost", !.nextCalls = @ + 1,
                          !.pc = "nextTail"]
          ELSE IF TokenAccepted(mw.env, mw.req)
          THEN [mw EXCEPT !.accessUser = "admin@token", !.nextCalls = @ + 1,
                          !.pc = "nextTail"]
          ELSE IF mw.env.CF_ACCESS_TEAM_DOMAIN = "" \/ mw.env.CF_ACCESS_AUD = ""
          THEN [mw EXCEPT !.response =
                              IF mw.env.MOLTBOT_GATEWAY_TOKEN # ""
                              THEN Response(401, mw.options.type)
                              ELSE Response(500, mw.options.type),
                          !.pc = "done"]
          ELSE IF extractJWT(mw.req) = Undefined
          THEN [mw EXCEPT !.response =
                              IF mw.options.type = "html" /\ mw.options.redirectOnMissing
                              THEN Response(302, "redirect")
                              ELSE Response(401, mw.options.type),
                          !.pc = "done"]
          ELSE [mw EXCEPT !.pc = "verify"]
    /\ UNCHANGED <<orchVars, scriptVars, peer>>

\* lines 366-368: verifyAccessJWT resolves, the user is set and next is called
VerifyResolved ==
    /\ mw.pc = "verify"
    /\ mw' = [mw EXCEPT !.verify = "ok", !.accessUser = "payload", !.nextCalls = @ + 1,
                        !.pc = "nextInTry"]
    /\ UNCHANGED <<orchVars, scriptVars, peer>>

\* lines 369-392: verifyAccessJWT rejects
VerifyRejected ==
    /\ mw.pc = "verify"
    /\ mw' = [mw EXCEPT !.verify = "failed", !.response = Response(401, mw.options.type),
                        !.pc = "done"]
    /\ UNCHANGED <<orchVars, scriptVars, peer>>

\* lines 269, 290, 368: the next handler resolves
NextHandlerResolved ==
    /\ mw.pc \in {"nextTail", "nextInTry"}
    /\ mw' = [mw EXCEPT !.response = Response(200, "downstream"), !.pc = "done"]
    /\ UNCHANGED <<orchVars, scriptVars, peer>>

\* lines 269, 290: the rejection of next() is the middleware's; line 368 inside
\* the try: the catch of lines 369-392 answers 401
NextHandlerRejected ==
    /\ mw.pc \in {"nextTail", "nextInTry"}
    /\ mw' = [mw EXCEPT !.response = IF mw.pc = "nextInTry"
                                     THEN Response(401, mw.options.type)
                                     ELSE Response(0, "threw"),
                        !.pc = "done"]
    /\ UNCHANGED <<orchVars, scriptVars, peer>>

\* the bindings, options and requests of the middleware that are checked
AccessEnvs ==
    [DEV_MODE : {"", "true", "1"}, E2E_TEST_MODE : {"", "true"},
     MOLTBOT_GATEWAY_TOKEN : {"", "secret"},
     CF_ACCESS_TEAM_DOMAIN : {"", "team.example.com"}, CF_ACCESS_AUD : {"", "aud"}]

AccessOptions == [type : {"json", "html"}, redirectOnMissing : BOOLEAN]

CookieHeaders ==
    { <<>>,
      << <<"moltbot-token", "secret">> >>,
      << <<"other", "v">>, <<"moltbot-token", "wrong">>, <<"moltbot-token", "secret">> >>,
      << <<"moltbot-token">>, <<"moltbot-token", "secret", "x">> >>,
      << <<"CF_Authorization", "jwt-cookie">> >>,
      << <<"moltbot-token", "">>, <<"CF_Authorization", "">> >> }

AccessRequests ==
    [queryToken : {Undefined, "", "secret", "wrong"}, cookies : CookieHeaders,
     jwtHeader : {Undefined, "jwt-header"}]

InitAccess ==
    /\ \E en \in AccessEnvs, op \in AccessOptions, rq \in AccessRequests :
          mw = [NoRequest EXCEPT !.pc = "entry", !.env = en, !.options = op, !.req = rq]
    /\ procs = <<>>
    /\ pc = "idle"
    /\ workerEnv = NoWorkerEnv
    /\ OrchFresh
    /\ peer = NoPeer
    /\ ScriptIdle

NextAccess ==
    \/ AccessCheck
    \/ VerifyResolved
    \/ VerifyRejected
    \/ NextHandlerResolved
    \/ NextHandlerRejected

SpecAccess == InitAccess /\ [][NextAccess]_vars

\* ------------------------------------------------------ start-moltbot.sh
\* lines 9-14: a run begins; shell options and the log
ScriptStart ==
    /\ spc \in {"idle", "exited", "killed", "aborted"}
    /\ runs < MaxRuns
    /\ runs' = runs + 1
    /\ restored' = [config |-> FALSE, skills |-> FALSE]
    /\ readConfig' = <<>>
    /\ service' = NotStarted
    /\ response' = NoResponse
    /\ answers' = <<>>
    /\ ncFailed' = FALSE
    /\ logLen' = Logged(logLen)
    /\ spc' = "cleanup"
    /\ UNCHANGED <<configFile, env, backup, localSync, template, skillsDir, runLog>>
    /\ UNCHANGED <<earlier, orchVars, peer, mw>>

\* lines 16-21: pkill of clawdbot gateway and of an older nc listener
CleanupPkill ==
    /\ spc = "cleanup"
    /\ earlier' = [earlier EXCEPT !.nc = AfterPkillListener(@)]
    /\ logLen' = Logged(logLen)
    /\ spc' = "cleanupScripts"
    /\ UNCHANGED <<synthVars, restoreVars, superVars, runs>>
    /\ UNCHANGED <<orchVars, peer, mw>>

\* lines 23-31: kill -9 of every other instance of the script; its nc child
\* is not signalled
CleanupKillScripts ==
    /\ spc = "cleanupScripts"
    /\ earlier' = [earlier EXCEPT !.script = IF @ = "none" THEN "none" ELSE "dead"]
    /\ logLen' = Logged(logLen)
    /\ spc' = "cleanupPort"
    /\ UNCHANGED <<synthVars, restoreVars, superVars, runs>>
    /\ UNCHANGED <<orchVars, peer, mw>>

\* lines 33-55: sleep, the port check with its forced kill, paths, mkdir
CleanupPortCheck ==
    /\ spc = "cleanupPort"
    /\ earlier' = [earlier EXCEPT !.nc = AfterPortCheck(@)]
    /\ logLen' = Logged(logLen)
    /\ spc' = "restore"
    /\ UNCHANGED <<synthVars, restoreVars, superVars, runs>>
    /\ UNCHANGED <<orchVars, peer, mw>>

\* lines 101-121: the config tree and the timestamp are copied from the backup
RestoreConfig ==
    /\ spc = "restore"
    /\ IF backup.layout \in {"nested", "legacy"}
       THEN LET decision == should_restore_from_r2(backup.sync, localSync) IN
            \E cpOk \in (IF decision THEN BOOLEAN ELSE {TRUE}) :
               /\ IF decision
                  THEN /\ configFile' = backup.config
                       /\ localSync' = Stamped(backup, localSync, cpOk)
                       /\ restored' = [restored EXCEPT !.config = TRUE]
                  ELSE UNCHANGED <<configFile, localSync, restored>>
               /\ runLog' = Append(runLog,
                     [asked |-> TRUE, remote |-> backup.sync, local |-> localSync,
                      decision |-> decision, stamped |-> decision /\ cpOk,
                      skills |-> FALSE])
       ELSE /\ runLog' = Append(runLog, [NoDecision EXCEPT !.remote = backup.sync,
                                                            !.local = localSync])
            /\ UNCHANGED <<configFile, localSync, restored>>
    /\ logLen' = Logged(logLen)
    /\ spc' = "restoreSkills"
    /\ UNCHANGED <<env, readConfig, backup, template, skillsDir, runs, superVars>>
    /\ UNCHANGED <<earlier, orchVars, peer, mw>>

\* lines 123-132: the skills tree is copied from the backup
RestoreSkills ==
    /\ spc = "restoreSkills"
    /\ IF /\ backup.skills = "nonempty"
          /\ should_restore_from_r2(backup.sync, localSync)
       THEN /\ skillsDir' = "restored"
            /\ restored' = [restored EXCEPT !.skills = TRUE]
            /\ runLog' = [runLog EXCEPT ![Len(runLog)].skills = TRUE]
       ELSE UNCHANGED <<skillsDir, restored, runLog>>
    /\ logLen' = Logged(logLen)
    /\ spc' = "initConfig"
    /\ UNCHANGED <<synthVars, backup, localSync, template, runs, superVars>>
    /\ UNCHANGED <<earlier, orchVars, peer, mw>>

\* lines 134-157 without the test of line 135
InitConfigOverwrites ==
    /\ spc = "initConfig"
    /\ configFile' = IF template THEN ConfigFile(TemplateConfig)
                     ELSE ConfigFile(MinimalConfig)
    /\ logLen' = Logged(logLen)
    /\ spc' = "configUpdate"
    /\ UNCHANGED <<env, readConfig, restoreVars, superVars, runs>>
    /\ UNCHANGED <<earlier, orchVars, peer, mw>>

\* lines 134-157: a missing config file is created from the template or minimal
InitConfig ==
    /\ spc = "initConfig"
    /\ configFile' =
          IF configFile.state # "absent" THEN configFile
          ELSE IF template THEN ConfigFile(TemplateConfig)
          ELSE ConfigFile(MinimalConfig)
    /\ logLen' = Logged(logLen)
    /\ spc' = "configUpdate"
    /\ UNCHANGED <<env, readConfig, restoreVars, superVars, runs>>
    /\ UNCHANGED <<earlier, orchVars, peer, mw>>

\* lines 162-399: node reads the config file, updates it and writes it back
ConfigUpdate ==
    /\ spc = "configUpdate"
    /\ readConfig' = LoadConfig(configFile)
    /\ configFile' = Synthesize(configFile, env)
    /\ logLen' = Logged(logLen)
    /\ spc' = "startGateway"
    /\ UNCHANGED <<env, restoreVars, superVars, runs>>
    /\ UNCHANGED <<earlier, orchVars, peer, mw>>

\* line 396 with "|| keep_alive_on_crash $?" after the node block, as lines
\* 443 and 446 have it after clawdbot
ConfigWriteFailsFallsBack ==
    /\ spc = "configUpdate"
    /\ readConfig' = LoadConfig(configFile)
    /\ configFile' \in {configFile, UnparseableFile}
    /\ logLen' = Logged(logLen)
    /\ spc' = "prepare"
    /\ UNCHANGED <<env, restoreVars, superVars, runs>>
    /\ UNCHANGED <<earlier, orchVars, peer, mw>>

\* line 396 under set -e (line 9): writeFileSync throws, node ends with a
\* non-zero status and the script exits there; the file is as it was (the
\* open failed) or cut short (the write failed after the truncating open)
ConfigWriteFails ==
    /\ spc = "configUpdate"
    /\ readConfig' = LoadConfig(configFile)
    /\ configFile' \in {configFile, UnparseableFile}
    /\ logLen' = Logged(logLen)
    /\ spc' = "aborted"
    /\ UNCHANGED <<env, restoreVars, superVars, runs>>
    /\ UNCHANGED <<earlier, orchVars, peer, mw>>

\* lines 405-446: lock files are removed and clawdbot gateway is started
StartGateway ==
    /\ spc = "startGateway"
    /\ service' = [state |-> "running", code |-> -1]
    /\ logLen' = Logged(logLen)
    /\ spc' = "serving"
    /\ UNCHANGED <<synthVars, restoreVars, response, answers, ncFailed, runs>>
    /\ UNCHANGED <<earlier, orchVars, peer, mw>>

\* lines 443, 446: clawdbot exits; on a non-zero status keep_alive_on_crash is
\* called with it, on status 0 the script is over
ServiceExit ==
    /\ spc = "serving"
    /\ \E code \in ExitCodes :
          /\ service' = [state |-> "exited", code |-> code]
          /\ spc' = IF EntersFallback(code) THEN "prepare" ELSE "exited"
    /\ logLen' = Logged(logLen)
    /\ UNCHANGED <<synthVars, restoreVars, response, answers, ncFailed, runs>>
    /\ UNCHANGED <<earlier, orchVars, peer, mw>>

\* lines 424-427: the loop body writes /tmp/response.txt
PrepareResponse ==
    /\ spc = "prepare"
    /\ Len(answers) < MaxConnections
    /\ response' = CrashResponse(service.code, logLen)
    /\ logLen' = Logged(logLen)
    /\ spc' = "listening"
    /\ UNCHANGED <<synthVars, restoreVars, service, answers, ncFailed, runs>>
    /\ UNCHANGED <<earlier, orchVars, peer, mw>>

\* line 429: nc answers one connection with the file and ends with status 0
AnswerConnection ==
    /\ spc = "listening"
    /\ answers' = Append(answers, response)
    /\ logLen' = Logged(logLen)
    /\ spc' = "prepare"
    /\ UNCHANGED <<synthVars, restoreVars, service, response, ncFailed, runs>>
    /\ UNCHANGED <<earlier, orchVars, peer, mw>>

\* line 429 under set -e (line 9): nc ends with a non-zero status, the script exits
ListenerFails ==
    /\ spc = "listening"
    /\ ncFailed' = TRUE
    /\ spc' = "exited"
    /\ UNCHANGED <<synthVars, restoreVars, service, response, answers, runs, logLen>>
    /\ UNCHANGED <<earlier, orchVars, peer, mw>>

\* the script and its children are killed by another process
KilledFromOutside ==
    /\ spc \in {"serving", "prepare", "listening"}
    /\ spc' = "killed"
    /\ UNCHANGED <<synthVars, restoreVars, superVars, runs, logLen>>
    /\ UNCHANGED <<earlier, orchVars, peer, mw>>

\* the external sync process, owner of the remote manifest, writes a later
\* timestamp to it while the service runs
ExternalSync ==
    /\ spc = "serving"
    /\ \E t \in SyncTexts :
          /\ backup.layout # "unmounted"
          /\ backup.sync.exists => DateEpoch(t) > DateEpoch(backup.sync.text)
          /\ backup' = [backup EXCEPT !.sync = SyncFile(t),
                                      !.treeSync = IF backup.layout = "legacy"
                                                   THEN SyncFile(t) ELSE @]
    /\ UNCHANGED <<spc, synthVars, localSync, template, skillsDir, restored, runLog,
                   superVars, runs, logLen>>
    /\ UNCHANGED <<earlier, orchVars, peer, mw>>

\* the node block on every config file and environment of the input sets
InitSynth ==
    /\ spc = "configUpdate"
    /\ configFile \in PriorConfigFiles \ {AbsentFile}
    /\ env \in ScriptEnvs
    /\ readConfig = <<>>
    /\ ScriptRest
    /\ earlier = NoEarlier
    /\ OrchIdle

\* lines 9-157 of the next run when nothing is restored: the file the first
\* run wrote exists and is used as it is
NextRunReachesUpdate ==
    /\ spc = "startGateway"
    /\ runs = 0
    /\ runs' = runs + 1
    /\ spc' = "configUpdate"
    /\ UNCHANGED <<synthVars, restoreVars, superVars, logLen, earlier>>
    /\ UNCHANGED <<orchVars, peer, mw>>

NextSynth == ConfigUpdate \/ NextRunReachesUpdate

SpecSynth == InitSynth /\ [][NextSynth]_vars

\* the inputs of the runs of the script
ScriptBackups ==
    { b \in [layout : Layouts, sync : {NoFile} \cup {SyncFile(t) : t \in SyncTexts},
             treeSync : {NoFile, SyncFile("2024-01-01T00:00:00Z")},
             config : {AbsentFile, ConfigFile(MinimalConfig)},
             skills : {"absent", "empty", "nonempty"}] :
        /\ b.config.state = "absent" <=> b.layout \in {"empty", "unmounted"}
        /\ b.layout = "legacy" => b.treeSync = b.sync
        /\ b.layout \in {"empty", "unmounted"} => ~b.treeSync.exists
        /\ b.layout = "unmounted" => (~b.sync.exists /\ b.skills = "absent") }

ScriptRunEnvs ==
    { NoEnv,
      [NoEnv EXCEPT !.AI_GATEWAY_BASE_URL = <<GatewayRoot, "/", "openai">>,
                    !.CF_AI_GATEWAY_MODEL = <<"google", "/", "gemini-3-flash">>,
                    !.OPENAI_API_KEY = "sk-openai",
                    !.CLAWDBOT_GATEWAY_TOKEN = "gw-token"] }

InitScript ==
    /\ spc = "idle"
    /\ backup \in {b \in ScriptBackups : b.layout = "nested" => ~b.treeSync.exists}
    /\ localSync \in {NoFile} \cup {SyncFile(t) : t \in SyncTexts}
    /\ \E present \in BOOLEAN :
          /\ configFile = IF present THEN ConfigFile(MinimalConfig) ELSE AbsentFile
          /\ template \in (IF present THEN {FALSE} ELSE BOOLEAN)
    /\ env \in ScriptRunEnvs
    /\ readConfig = <<>>
    /\ skillsDir = "empty"
    /\ runs = 0
    /\ restored = [config |-> FALSE, skills |-> FALSE]
    /\ runLog = <<>>
    /\ service = NotStarted
    /\ response = NoResponse
    /\ answers = <<>>
    /\ ncFailed = FALSE
    /\ logLen \in {0, TailLines}
    /\ earlier = NoEarlier
    /\ OrchIdle

NextScript ==
    \/ ScriptStart
    \/ CleanupPkill
    \/ CleanupKillScripts
    \/ CleanupPortCheck
    \/ RestoreConfig
    \/ RestoreSkills
    \/ InitConfig
    \/ ConfigUpdate
    \/ ConfigWriteFails
    \/ StartGateway
    \/ ServiceExit
    \/ PrepareResponse
    \/ AnswerConnection
    \/ ListenerFails
    \/ KilledFromOutside

SpecScript == InitScript /\ [][NextScript]_vars

\* runs of the script up to the start of the service, over every backup and
\* local manifest, with the remote manifest rewritten between the runs
InitRestore ==
    /\ spc = "idle"
    /\ backup \in ScriptBackups
    /\ localSync \in {NoFile} \cup {SyncFile(t) : t \in SyncTexts}
    /\ \E present \in BOOLEAN :
          /\ configFile = IF present THEN ConfigFile(MinimalConfig) ELSE AbsentFile
          /\ template \in (IF present THEN {FALSE} ELSE BOOLEAN)
    /\ env = NoEnv
    /\ readConfig = <<>>
    /\ skillsDir = "empty"
    /\ runs = 0
    /\ restored = [config |-> FALSE, skills |-> FALSE]
    /\ runLog = <<>>
    /\ service = NotStarted
    /\ response = NoResponse
    /\ answers = <<>>
    /\ ncFailed = FALSE
    /\ logLen = 0
    /\ earlier = NoEarlier
    /\ OrchIdle

NextRestore ==
    \/ ScriptStart
    \/ CleanupPkill
    \/ CleanupKillScripts
    \/ CleanupPortCheck
    \/ RestoreConfig
    \/ RestoreSkills
    \/ InitConfig
    \/ ConfigUpdate
    \/ StartGateway
    \/ ExternalSync
    \/ KilledFromOutside

SpecRestore == InitRestore /\ [][NextRestore]_vars

\* buildEnvVars and the startProcess call, on every binding of the input set
InitEnv ==
    /\ procs = <<>>
    /\ pc = "start"
    /\ workerEnv \in WorkerEnvs
    /\ OrchFresh
    /\ peer = NoPeer
    /\ mw = NoRequest
    /\ ScriptIdle

NextEnv == StartResolved \/ StartRejected

SpecEnv == InitEnv /\ [][NextEnv]_vars

\* ------------------------------- a new invocation meets a degraded script
\* lines 424-429 of the earlier instance: the response is written, nc listens
EarlierPrepare ==
    /\ earlier.script = "prepare"
    /\ earlier' = [script |-> "listening", nc |-> "listening"]
    /\ UNCHANGED <<spc, synthVars, restoreVars, superVars, runs, logLen>>
    /\ UNCHANGED <<orchVars, peer, mw>>

\* line 429 of the earlier instance: nc answers one connection and ends
EarlierAnswer ==
    /\ HoldsPort(earlier.nc)
    /\ earlier' = [earlier EXCEPT !.nc = "served"]
    /\ UNCHANGED <<spc, synthVars, restoreVars, superVars, runs, logLen>>
    /\ UNCHANGED <<orchVars, peer, mw>>

\* line 429 of the earlier instance: the pipeline is over; after status 0 the
\* loop goes on, after a killed nc set -e ends the script
EarlierListenerEnded ==
    /\ earlier.script = "listening"
    /\ earlier.nc \in {"served", "killed"}
    /\ earlier' = [script |-> IF earlier.nc = "served" THEN "prepare" ELSE "dead",
                   nc |-> "none"]
    /\ UNCHANGED <<spc, synthVars, restoreVars, superVars, runs, logLen>>
    /\ UNCHANGED <<orchVars, peer, mw>>

\* line 70: the kill() that resolved takes effect on the script process; the
\* sources do not tell whether its nc child is signalled with it
SignalDelivered ==
    /\ procs[1].status = "killed"
    /\ earlier.script \in {"prepare", "listening"}
    /\ \E nc \in {earlier.nc, AfterPkillListener(earlier.nc)} :
          earlier' = [script |-> "dead", nc |-> nc]
    /\ UNCHANGED <<spc, synthVars, restoreVars, superVars, runs, logLen>>
    /\ UNCHANGED <<orchVars, peer, mw>>

\* line 89: the process startProcess returned runs the script
LaunchedScriptStart ==
    /\ process # 0
    /\ ScriptStart

\* process.ts line 91, env: envVars: the variables the launched script and its
\* node block see; a variable buildEnvVars did not set is not set
ProcessEnv(ev) ==
    [k \in DOMAIN NoEnv |-> IF ObjHas(ev, k) THEN ObjGet(ev, k) ELSE NoEnv[k]]

\* process.ts lines 89-92, part_000 lines 9-14: the script started by
\* startProcess begins with the environment buildEnvVars returned
ScriptLaunched ==
    /\ process # 0
    /\ spc = "idle"
    /\ runs < MaxRuns
    /\ runs' = runs + 1
    /\ env' = ProcessEnv(envVars)
    /\ restored' = [config |-> FALSE, skills |-> FALSE]
    /\ readConfig' = <<>>
    /\ service' = NotStarted
    /\ response' = NoResponse
    /\ answers' = <<>>
    /\ ncFailed' = FALSE
    /\ logLen' = Logged(logLen)
    /\ spc' = "cleanup"
    /\ UNCHANGED <<configFile, backup, localSync, template, skillsDir, runLog>>
    /\ UNCHANGED <<earlier, orchVars, peer, mw>>

\* buildEnvVars, startProcess and the launched script up to the written config
NextLaunch ==
    \/ StartResolved
    \/ ScriptLaunched
    \/ CleanupPkill
    \/ CleanupKillScripts
    \/ CleanupPortCheck
    \/ RestoreConfig
    \/ RestoreSkills
    \/ InitConfig
    \/ ConfigUpdate

SpecLaunch == InitEnv /\ [][NextLaunch]_vars

\* record 1 of the listing is the earlier script, in its degraded state
InitHandover ==
    /\ \E others \in {<<>>} \cup {<<ProcRecord(2, c, "running")>> : c \in Commands} :
          procs = <<ProcRecord(1, LaunchCommand, "running")>> \o others
    /\ pc = "mount"
    /\ workerEnv = NoWorkerEnv
    /\ OrchFresh
    /\ peer = NoPeer
    /\ mw = NoRequest
    /\ spc = "idle"
    /\ configFile = AbsentFile
    /\ env \in ScriptRunEnvs
    /\ readConfig = <<>>
    /\ ScriptRest
    /\ earlier \in EarlierDegraded

NextHandover ==
    \/ NextOrch
    \/ SignalDelivered
    \/ EarlierPrepare
    \/ EarlierAnswer
    \/ EarlierListenerEnded
    \/ LaunchedScriptStart
    \/ CleanupPkill
    \/ CleanupKillScripts
    \/ CleanupPortCheck
    \/ RestoreConfig
    \/ RestoreSkills
    \/ InitConfig
    \/ ConfigUpdate
    \/ StartGateway

SpecHandover == InitHandover /\ [][NextHandover]_vars

\* ------------------------------------------------ claims on the orchestrator
KillCount(id) == Cardinality({k \in DOMAIN killLog : killLog[k].id = id})

GatewayAlive == {i \in DOMAIN procs : Matches(procs[i]) /\ Alive(procs[i])}

\* C1: kill() is invoked exactly once on every process discovery returned,
\* whatever its status, never on another one, and when startProcess is called
\* all these calls and (when any was made) the grace wait have completed.
C1_AllKilledBeforeStart ==
    /\ \A id \in DOMAIN procs :
          KillCount(id) <= (IF \E k \in DOMAIN found : found[k] = id THEN 1 ELSE 0)
    /\ startCalls > 0 =>
          /\ \A k \in DOMAIN found : KillCount(found[k]) = 1
          /\ preStart.kills = Len(found)
          /\ Len(killLog) = Len(found)
          /\ (found # <<>> => preStart.grace)

C1_Witness ==
    /\ startCalls = 1
    /\ Len(found) = 2
    /\ \E k \in DOMAIN killLog : killLog[k].status = "starting"
    /\ \E k \in DOMAIN killLog : killLog[k].status = "running"

C3_DescriptiveErrorRaised ==
    (pc = "done" /\ waitOutcome = "failed" /\ logsCatch = "ok")
    => result = [kind |-> "threw", error |-> DescriptiveError(capturedLogs)]

\* C4: when waitForPort resolved the invocation returns the started process,
\* also when the getLogs that follows rejects.
C4_ReadyImpliesReturned ==
    (pc = "done" /\ waitOutcome = "ok")
    => result = [kind |-> "returned", process |-> process]

\* C5: when waitForPort rejected and the getLogs made to enrich the error
\* rejected too, the error raised is the wait error itself; a run whose
\* waitForPort rejected never returns a process.
C5_OriginalWaitErrorRaised ==
    /\ (pc = "done" /\ waitOutcome = "failed" /\ logsCatch = "failed")
       => (e \in WaitErrors /\ result = [kind |-> "threw", error |-> e])
    /\ (pc = "done" /\ waitOutcome = "failed") => result.kind = "threw"

C5_Witness ==
    /\ pc = "done"
    /\ waitOutcome = "failed"
    /\ logsCatch = "failed"
    /\ result.kind = "threw"
    /\ result.error = Err("timeout")

\* ------------------------------------------------ claims on the config update
ProvidersOf(c) ==
    IF HasPath(c, <<"models", "providers">>) THEN GetPath(c, <<"models", "providers">>)
    ELSE <<>>

Populated(c) == {p \in ProviderNames : ObjHas(ProvidersOf(c), p)}

BlockOf(c, p) == ObjGet(ProvidersOf(c), p)

HasNamelessModel(block) ==
    /\ ObjHas(block, "models")
    /\ \E i \in 1..Len(ObjGet(block, "models")) :
          LET m == ObjGet(block, "models")[i]
          IN  ~ObjHas(m, "name") \/ ObjGet(m, "name") = ""

SynthDone == spc = "startGateway"

Selected == WrittenProvider(ScriptBaseUrl(env), env)

Written == configFile.content

\* what this run's block of the selected provider must hold, field by field
FreshBlock(block, p) ==
    /\ \A i \in 1..Len(block) : block[i][1] \in {"baseUrl", "api", "models", "apiKey"}
    /\ ObjGet(block, "api") =
          (IF p = "anthropic" THEN "anthropic-messages"
           ELSE IF p = "openai" THEN "openai-responses" ELSE "google-generative-ai")
    /\ ObjGet(block, "models") \in {anthropicModels, openaiModels, googleModels}
    /\ ObjGet(block, "baseUrl") # <<"https://old.example.com">>
    /\ ObjHas(block, "apiKey") => ObjGet(block, "apiKey") \in {env.OPENAI_API_KEY, env.ANTHROPIC_API_KEY}

\* C8 as stated: after the config update exactly one provider block is
\* populated, the one of the selected provider.
C8_ExactlyOneProviderBlock ==
    SynthDone => Populated(Written) = {Selected}

\* C8 amended: after the config update the block of the selected provider is
\* populated and holds only what this run built (it fully replaces a prior
\* block of that name); every other provider block of the prior config is
\* still there, unchanged, except an anthropic block holding a model entry
\* without name, which is removed; no other block appears.
C8_SelectedReplacedOthersKept ==
    SynthDone =>
        /\ Selected \in Populated(Written)
        /\ FreshBlock(BlockOf(Written, Selected), Selected)
        /\ \A p \in ProviderNames \ {Selected} :
              /\ p \in Populated(Written) <=>
                    /\ p \in Populated(readConfig)
                    /\ ~(p = "anthropic" /\ HasNamelessModel(BlockOf(readConfig, p)))
              /\ p \in Populated(Written) => BlockOf(Written, p) = BlockOf(readConfig, p)

C8_Witness ==
    /\ SynthDone
    /\ Selected = "openai"
    /\ Populated(readConfig) = ProviderNames
    /\ HasNamelessModel(BlockOf(readConfig, "anthropic"))
    /\ Populated(Written) = {"openai", "google"}
    /\ ObjGet(BlockOf(Written, "openai"), "models") = openaiModels

\* C9 as stated: after the config update no populated provider block holds a
\* model entry without name.
C9_NoNamelessModelAnywhere ==
    SynthDone => \A p \in Populated(Written) : ~HasNamelessModel(BlockOf(Written, p))

\* C9 amended: after the config update neither the anthropic block nor the
\* block of the selected provider holds a model entry without name (an openai
\* or google block of the prior config that is not selected is left as it was).
C9_NoNamelessAnthropicOrSelected ==
    SynthDone =>
        \A p \in {"anthropic", Selected} \cap Populated(Written) :
            ~HasNamelessModel(BlockOf(Written, p))

C9_Witness ==
    /\ SynthDone
    /\ Selected = "google"
    /\ "anthropic" \in Populated(readConfig)
    /\ HasNamelessModel(BlockOf(readConfig, "anthropic"))
    /\ "anthropic" \notin Populated(Written)

TargetIsGoogleOrOpenAI ==
    isGoogle(ScriptBaseUrl(env), env) \/ isOpenAI(ScriptBaseUrl(env), env)

Degraded == spc \in {"prepare", "listening"}

ServiceGone == service.state = "exited" /\ spc # "killed" /\ ~ncFailed

C7_SkillsRestoredWithConfig ==
    (/\ spc \notin {"idle", "restore", "restoreSkills"}
     /\ restored.config
     /\ backup.skills = "nonempty")
    => restored.skills

\* The restore decision as the table of the specification gives it.
DecisionTable(remote, local) ==
    IF ~remote.exists THEN FALSE
    ELSE IF ~local.exists THEN TRUE
    ELSE LET remoteEpoch == IF remote.text \in {"2024-01-01T00:00:00Z", "2024-01-02T00:00:00Z"}
                            THEN DateEpoch(remote.text) ELSE 0
             localEpoch == IF local.text \in {"2024-01-01T00:00:00Z", "2024-01-02T00:00:00Z"}
                           THEN DateEpoch(local.text) ELSE 0
         IN remoteEpoch > localEpoch

\* C11: every restore decision a run took follows the table: remote manifest
\* absent gives false, remote present and local absent gives true, otherwise
\* true iff the remote epoch is strictly greater than the local one, a
\* timestamp that does not parse counting as epoch zero.
C11_DecisionFollowsTable ==
    \A r \in DOMAIN runLog :
        runLog[r].asked =>
            /\ runLog[r].decision = DecisionTable(runLog[r].remote, runLog[r].local)
            /\ runLog[r].remote.exists /\ runLog[r].local.exists
               /\ runLog[r].remote.text = runLog[r].local.text => ~runLog[r].decision

C11_Witness ==
    /\ Len(runLog) = 2
    /\ runLog[1].asked /\ runLog[1].decision /\ ~runLog[1].local.exists
    /\ runLog[2].asked /\ ~runLog[2].decision
    /\ runLog[2].remote.text = "not-a-date"
    /\ runLog[2].local.text = "2024-01-01T00:00:00Z"
    /\ spc = "serving"

\* a run copied something from the backup
CopiedFromBackup(rec) == rec.decision \/ rec.skills

ScriptStep == NextRestore /\ ~ExternalSync

C14_NoEarlierResponderAtStart ==
    /\ service.state = "running" =>
          /\ earlier.script = "dead"
          /\ ~HoldsPort(earlier.nc)
    /\ (listOk /\ startCalls > 0) =>
          /\ \E k \in DOMAIN found : found[k] = 1
          /\ KillCount(1) = 1

C14_Witness ==
    /\ service.state = "running"
    /\ \E k \in DOMAIN killLog : killLog[k].id = 1 /\ ~killLog[k].ok
    /\ earlier = [script |-> "dead", nc |-> "killed"]

\* a CLI-only invocation of the service binary: devices listing, version, help
IsCliOnly(command) ==
    \/ Includes(command, <<"clawdbot", "devices">>)
    \/ Includes(command, <<"clawdbot", "--version">>)
    \/ (command[1] = "clawdbot" /\ \E i \in DOMAIN command : command[i] = "--help")

HasSignature(command) ==
    HasLaunchScript(command) \/ Includes(command, <<"clawdbot", "gateway">>)

\* the records that were listed when discovery ran
Listed == {i \in DOMAIN procs : i # process}

Discovered == {found[k] : k \in DOMAIN found}

\* C15: once the listing resolved, discovery returned no process whose command
\* is a CLI-only invocation (devices listing, version, help) and returned every
\* listed process, whatever its status, whose command holds the launch-script
\* name or 'clawdbot gateway' and is not such an invocation.
C15_DiscoveryExcludesCli ==
    (listOk /\ pc \notin {"mount", "discover"}) =>
        /\ \A i \in Discovered : ~IsCliOnly(procs[i].command)
        /\ \A i \in Listed :
              (HasSignature(procs[i].command) /\ ~IsCliOnly(procs[i].command))
              => i \in Discovered

\* the invocation is past the call of startProcess
PastStart == pc \in {"wait", "logsReady", "catch", "done"}

\* C16: when listProcesses rejected, discovery gave the empty list, no kill()
\* was called and startProcess is called; when a kill() rejected, kill() was
\* still called on every other discovered process before startProcess was
\* called; no invocation ends or stops before its call of startProcess.
C16_ReconciliationFailuresRecovered ==
    /\ (~listOk /\ pc \notin {"mount", "discover"}) =>
          (found = <<>> /\ killLog = <<>> /\ pc # "kill")
    /\ (pc = "start" \/ PastStart) =>
          \A k \in DOMAIN found : KillCount(found[k]) = 1
    /\ PastStart => startCalls = 1
    /\ pc \in {"mount", "discover", "kill", "start"} => (startCalls = 0 /\ ENABLED NextOrch)

C16_Witness ==
    /\ PastStart
    /\ startCalls = 1
    /\ Len(found) = 2
    /\ Len(killLog) = 2
    /\ ~killLog[1].ok
    /\ killLog[2].id = found[2]

\* C17: startProcess is called at most once in an invocation; when it
\* rejected, the invocation ends raising that error, and neither waitForPort
\* nor getLogs was called.
C17_StartFailureIsFatal ==
    /\ startCalls <= 1
    /\ (startCalls = 1 /\ process = 0) =>
          /\ pc = "done"
          /\ result = [kind |-> "threw", error |-> Err("startProcess")]
          /\ waitOutcome = "none"
          /\ logsReady = "none"
          /\ logsCatch = "none"

C17_Witness ==
    /\ pc = "done"
    /\ startCalls = 1
    /\ process = 0
    /\ result = [kind |-> "threw", error |-> Err("startProcess")]
    /\ \E k \in DOMAIN killLog : killLog[k].ok

\* the classification of the target provider, as the specification words it
ModelOverride == env.CF_AI_GATEWAY_MODEL

UrlEndsOpenAI == EndsWith(StripTrailingSlashes(
                     IF env.AI_GATEWAY_BASE_URL # <<>> THEN env.AI_GATEWAY_BASE_URL
                     ELSE env.ANTHROPIC_BASE_URL), <<"/", "openai">>)

UrlIndicatesGoogle ==
    LET u == StripTrailingSlashes(
                 IF env.AI_GATEWAY_BASE_URL # <<>> THEN env.AI_GATEWAY_BASE_URL
                 ELSE env.ANTHROPIC_BASE_URL)
    IN  EndsWith(u, <<"/", "google">>) \/ IncludesGemini(u)

Classified ==
    IF UrlIndicatesGoogle \/ StartsWith(ModelOverride, <<"google", "/">>) THEN "Google"
    ELSE IF UrlEndsOpenAI \/ StartsWith(ModelOverride, <<"openai", "/">>) THEN "OpenAI"
    ELSE "Anthropic"

Allowlist ==
    IF HasPath(Written, <<"agents", "defaults", "models">>)
    THEN GetPath(Written, <<"agents", "defaults", "models">>) ELSE <<>>

BlockHolds(p, models, api) ==
    /\ p \in Populated(Written)
    /\ ObjHas(BlockOf(Written, p), "models")
    /\ ObjGet(BlockOf(Written, p), "models") = models
    /\ ObjGet(BlockOf(Written, p), "api") = api

Registered(prefix, models) ==
    \A i \in 1..Len(models) :
        /\ ObjHas(Allowlist, prefix \o <<ObjGet(models[i], "id")>>)
        /\ ObjGet(Allowlist, prefix \o <<ObjGet(models[i], "id")>>)
              = << <<"alias", ObjGet(models[i], "name")>> >>

Primary == GetPath(Written, <<"agents", "defaults", "model", "primary">>)

PrimaryIs(default) ==
    Primary = IF ModelOverride # <<>> THEN ModelOverride ELSE default

\* C18: the written config follows the classification precedence Google,
\* OpenAI, Anthropic; a Google target behind a URL ending in /openai fills the
\* openai block with the Google catalog and registers google/<id> and
\* openai/google/<id> for each of its models, another Google target fills the
\* google block; the primary model is the override when set and else the
\* default of the classified provider.
C18_ClassificationPrecedence ==
    SynthDone =>
        CASE Classified = "Google" /\ UrlEndsOpenAI ->
                /\ BlockHolds("openai", googleModels, "openai-responses")
                /\ Registered(<<"google", "/">>, googleModels)
                /\ Registered(<<"openai", "/", "google", "/">>, googleModels)
                /\ PrimaryIs(<<"google", "/", "gemini-3-flash">>)
          [] Classified = "Google" /\ ~UrlEndsOpenAI ->
                /\ BlockHolds("google", googleModels, "google-generative-ai")
                /\ Registered(<<"google", "/">>, googleModels)
                /\ PrimaryIs(<<"google", "/", "gemini-3-flash">>)
          [] Classified = "OpenAI" ->
                /\ BlockHolds("openai", openaiModels, "openai-responses")
                /\ Registered(<<"openai", "/">>, openaiModels)
                /\ PrimaryIs(<<"openai", "/", "gpt-5.2">>)
          [] Classified = "Anthropic" ->
                /\ BlockHolds("anthropic", anthropicModels, "anthropic-messages")
                /\ Registered(<<"anthropic", "/">>, anthropicModels)
                /\ PrimaryIs(<<"anthropic", "/", "claude-sonnet-4-5-20250929">>)

C18_Witness ==
    /\ SynthDone
    /\ UrlEndsOpenAI
    /\ ~UrlIndicatesGoogle
    /\ ModelOverride = <<"google", "/", "gemini-3-flash">>
    /\ BlockHolds("openai", googleModels, "openai-responses")
    /\ ObjHas(Allowlist, <<"openai", "/", "google", "/", "gemini-3-flash">>)
    /\ Primary = <<"google", "/", "gemini-3-flash">>

\* C19: the second run of the config update, on the file the first run wrote
\* and with the same environment, writes the file it read: same keys, same
\* values, same key order.
C19_SecondSynthesisWritesSameFile ==
    (SynthDone /\ runs = 1) => configFile = ConfigFile(readConfig)

C19_Witness ==
    /\ SynthDone
    /\ runs = 1
    /\ Cardinality(Populated(Written)) >= 2
    /\ env.TELEGRAM_DM_ALLOW_FROM # <<>>
    /\ HasPath(Written, <<"channels", "telegram", "allowFrom">>)
    /\ configFile = ConfigFile(readConfig)

\* buildEnvVars has returned
Built == startCalls = 1

GatewayScopedKey ==
    IF workerEnv.AI_GATEWAY_API_KEY # "" THEN workerEnv.AI_GATEWAY_API_KEY
    ELSE workerEnv.CLOUDFLARE_AI_GATEWAY_API_KEY

VarIs(k, v) == ObjHas(envVars, k) /\ ObjGet(envVars, k) = v

\* C20: a gateway-scoped key that is set is the value of OPENAI_API_KEY when
\* the normalised base URL ends with /openai and of ANTHROPIC_API_KEY
\* otherwise, whatever the direct keys are; when none is set, each direct
\* provider key that is set is passed under its own name and one that is not
\* set gives no variable.
C20_GatewayKeyRouting ==
    Built =>
        /\ GatewayScopedKey # "" =>
              VarIs(IF EndsWith(normalizedBaseUrl(workerEnv), <<"/", "openai">>)
                    THEN "OPENAI_API_KEY" ELSE "ANTHROPIC_API_KEY", GatewayScopedKey)
        /\ GatewayScopedKey = "" =>
              \A k \in {"ANTHROPIC_API_KEY", "OPENAI_API_KEY"} :
                  IF workerEnv[k] # "" THEN VarIs(k, workerEnv[k])
                  ELSE ~ObjHas(envVars, k)

C20_Witness ==
    /\ Built
    /\ workerEnv.AI_GATEWAY_BASE_URL = <<>>
    /\ EndsWith(normalizedBaseUrl(workerEnv), <<"/", "openai">>)
    /\ workerEnv.AI_GATEWAY_API_KEY = ""
    /\ workerEnv.OPENAI_API_KEY # ""
    /\ workerEnv.ANTHROPIC_API_KEY # ""
    /\ VarIs("OPENAI_API_KEY", workerEnv.CLOUDFLARE_AI_GATEWAY_API_KEY)
    /\ VarIs("ANTHROPIC_API_KEY", workerEnv.ANTHROPIC_API_KEY)

\* the model binding indicates Google
ModelIndicatesGoogle ==
    \/ StartsWith(workerEnv.CF_AI_GATEWAY_MODEL, <<"google", "/">>)
    \/ IncludesGemini(workerEnv.CF_AI_GATEWAY_MODEL)

UrlSynthesised ==
    /\ workerEnv.AI_GATEWAY_BASE_URL = <<>>
    /\ workerEnv.CLOUDFLARE_AI_GATEWAY_ID # ""
    /\ workerEnv.CF_ACCOUNT_ID # ""

SynthesisedUrl(path) ==
    <<"https://gateway.ai.cloudflare.com/v1", "/", workerEnv.CF_ACCOUNT_ID, "/",
      workerEnv.CLOUDFLARE_AI_GATEWAY_ID, "/", path>>

ResolvedUrl ==
    IF workerEnv.AI_GATEWAY_BASE_URL # <<>> THEN workerEnv.AI_GATEWAY_BASE_URL
    ELSE IF UrlSynthesised
    THEN SynthesisedUrl(IF ModelIndicatesGoogle THEN "openai" ELSE "anthropic")
    ELSE <<>>

\* C21: the base URL is the explicit one when set, else the one synthesised
\* from account id and gateway id with provider path openai for a model that
\* indicates Google and anthropic otherwise; stripped of trailing slashes it is
\* emitted as AI_GATEWAY_BASE_URL and as exactly one of OPENAI_BASE_URL (iff it
\* ends with /openai) and ANTHROPIC_BASE_URL.
C21_BaseUrlResolution ==
    (Built /\ ResolvedUrl # <<>>) =>
        LET stripped == StripTrailingSlashes(ResolvedUrl) IN
        /\ stripped # <<>>
        /\ stripped[Len(stripped)] # "/"
        /\ VarIs("AI_GATEWAY_BASE_URL", stripped)
        /\ IF EndsWith(stripped, <<"/", "openai">>)
           THEN VarIs("OPENAI_BASE_URL", stripped) /\ ~ObjHas(envVars, "ANTHROPIC_BASE_URL")
           ELSE VarIs("ANTHROPIC_BASE_URL", stripped) /\ ~ObjHas(envVars, "OPENAI_BASE_URL")

C21_Witness ==
    /\ Built
    /\ UrlSynthesised
    /\ workerEnv.CF_AI_GATEWAY_MODEL = <<"gemini-pro">>
    /\ workerEnv.ANTHROPIC_BASE_URL # <<>>
    /\ VarIs("OPENAI_BASE_URL", SynthesisedUrl("openai"))
    /\ VarIs("AI_GATEWAY_BASE_URL", SynthesisedUrl("openai"))

AfterSynth == spc \in {"startGateway", "serving", "killed"}

\* C23: in a run of the script the restore decision and the copy from the
\* backup are over before the node block reads the config file, the file is
\* written before the service is started, and in a run that restored the
\* config the node block reads the restored config.
C23_RestoreThenSynthThenService ==
    /\ spc \in {"cleanup", "cleanupScripts", "cleanupPort", "restore",
                "restoreSkills", "initConfig", "configUpdate"} =>
          (readConfig = <<>> /\ service = NotStarted)
    /\ AfterSynth =>
          /\ Len(runLog) = runs
          /\ readConfig # <<>>
          /\ configFile.state = "ok"
          /\ restored.config =>
                /\ runLog[runs].decision
                /\ readConfig = LoadConfig(backup.config)
                /\ configFile = Synthesize(backup.config, env)
    /\ service # NotStarted => spc \in {"serving", "killed"}

C23_Witness ==
    /\ spc = "serving"
    /\ service.state = "running"
    /\ restored.config
    /\ template
    /\ readConfig = LoadConfig(backup.config)
    /\ readConfig # LoadConfig(ConfigFile(TemplateConfig))

\* C24: when the write of the config fails the script is over: the service is
\* not started in that run and the crash fallback responder is not started
\* either; the responder runs only after the service was started and exited.
C24_WriteFailureAborts ==
    /\ spc = "aborted" =>
          /\ service = NotStarted
          /\ response = NoResponse
          /\ answers = <<>>
    /\ (spc \in {"prepare", "listening"} \/ response # NoResponse \/ answers # <<>>) =>
          service.state = "exited"

C24_Witness ==
    /\ spc = "aborted"
    /\ runs = 1
    /\ configFile = UnparseableFile
    /\ readConfig # <<>>
    /\ service = NotStarted

\* C25: when buildEnvVars built the gateway URL with the openai suffix
\* because the model starts with google/ or contains gemini, the node block
\* run with the variables buildEnvVars returned takes the Google branch and
\* fills the openai block with the Google catalog, not the OpenAI catalog.
C25_SynthesisedGoogleUrlGetsGoogleCatalog ==
    (SynthDone /\ UrlSynthesised /\ ModelIndicatesGoogle) =>
        /\ env.AI_GATEWAY_BASE_URL = SynthesisedUrl("openai")
        /\ isGoogle(ScriptBaseUrl(env), env)
        /\ BlockHolds("openai", googleModels, "openai-responses")
        /\ ~BlockHolds("openai", openaiModels, "openai-responses")

BothFinished == pc = "done" /\ peer.pc = "done"

\* C26: with two interleaved invocations on one sandbox, at most one gateway
\* process is alive once both have finished, and a process that one invocation
\* returned has not been killed through the other's kill() calls.
C26_InterleavedInvocationsKeepOneGateway ==
    /\ BothFinished => Cardinality(GatewayAlive) <= 1
    /\ result.kind = "returned" => procs[result.process].status # "killed"
    /\ peer.result.kind = "returned" => procs[peer.result.process].status # "killed"

DevOrE2E == mw.env.DEV_MODE = "true" \/ mw.env.E2E_TEST_MODE = "true"

GatewayTokenGiven ==
    /\ mw.env.MOLTBOT_GATEWAY_TOKEN # ""
    /\ \/ mw.req.queryToken = mw.env.MOLTBOT_GATEWAY_TOKEN
       \/ \E i \in 1..Len(mw.req.cookies) :
             /\ Len(mw.req.cookies[i]) >= 2
             /\ mw.req.cookies[i][1] = "moltbot-token"
             /\ mw.req.cookies[i][2] = mw.env.MOLTBOT_GATEWAY_TOKEN
             /\ \A j \in 1..(i - 1) :
                   ~(Len(mw.req.cookies[j]) >= 2 /\ mw.req.cookies[j][1] = "moltbot-token")

AccessJwtVerified ==
    /\ mw.env.CF_ACCESS_TEAM_DOMAIN # ""
    /\ mw.env.CF_ACCESS_AUD # ""
    /\ \/ mw.req.jwtHeader \notin {Undefined, ""}
       \/ \E i \in 1..Len(mw.req.cookies) :
             /\ Len(mw.req.cookies[i]) >= 2
             /\ mw.req.cookies[i][1] = "CF_Authorization"
    /\ mw.verify = "ok"

Admitted == DevOrE2E \/ GatewayTokenGiven \/ AccessJwtVerified

\* C27: the access middleware calls the next handler only in dev or E2E mode,
\* on a query or cookie token equal to the configured gateway token, or with
\* Cloudflare Access configured and a JWT that is present and verified; in
\* every other case its answer is 401, 500 or 302 and next is never called.
C27_NextOnlyWhenAdmitted ==
    /\ mw.nextCalls > 0 => (Admitted /\ mw.nextCalls = 1)
    /\ (mw.pc = "done" /\ ~Admitted) =>
          /\ mw.nextCalls = 0
          /\ mw.response.status \in {401, 500, 302}
    /\ (mw.pc \notin {"idle", "entry", "verify"} /\ Admitted) => mw.nextCalls = 1

C27_Witness ==
    /\ mw.pc = "done"
    /\ mw.env.DEV_MODE = "1"
    /\ mw.env.MOLTBOT_GATEWAY_TOKEN = "secret"
    /\ mw.req.queryToken = "wrong"
    /\ mw.verify = "ok"
    /\ mw.nextCalls = 1
    /\ mw.response.status = 200

====
